---- MODULE Spec2Model ----
(***************************************************************************)
(* Visa Letter API (server.js, SOP-STRICT variant).                        *)
(*                                                                         *)
(* The process starts, checks its environment and its mandatory policy     *)
(* assets, builds the style digest and listens.  Each POST                 *)
(* /generate-letter request is cleaned and validated; a valid request is   *)
(* handed to createLetter, which calls the primary model and, when that    *)
(* call throws and a distinct fallback model is configured, the fallback   *)
(* model.  The handler is suspended while a generation call is in flight,  *)
(* so requests interleave at those points only.                            *)
(*                                                                         *)
(* Strings that the code inspects (trim, toLowerCase, length, regex on an  *)
(* extension) are sequences of one-character strings.  Strings the code    *)
(* only passes along (messages, model names, labels) are TLA+ strings.     *)
(***************************************************************************)
EXTENDS Integers, Sequences, FiniteSets, TLC

VARIABLES
    env,            \* process.env as read at lines 34-39
    fs,             \* the asset directory tree (rules/, mini_templates/, samples/)
    proc,           \* "starting" | "listening" | "exited"
    mkdirs,         \* directories created by the loop at lines 83-85
    stderr,         \* console.error lines written before process.exit(1)
    SOP,            \* the loaded policy assets (const SOP, line 137)
    STYLE_DIGEST,   \* const STYLE_DIGEST, line 150
    req,            \* req[r]: the handler invocation of request r
    digestIn,       \* buildStyleDigest applied on its own: arguments
    digestOut,      \* buildStyleDigest applied on its own: result
    applied         \* another function applied on its own: arguments and result

vars == <<env, fs, proc, mkdirs, stderr, SOP, STYLE_DIGEST, req, digestIn, digestOut, applied>>

(***************************************************************************)
(* Bounds of the model.                                                    *)
(***************************************************************************)
MaxReqs == 2        \* requests in flight at once
MaxPool == 2        \* sample files handed to buildStyleDigest on its own
MaxTotal == 48      \* largest totalChars tried
MaxPerFile == 4     \* largest perFileChars tried
MaxFilesOpt == 3    \* largest maxFiles tried

Reqs == 1..MaxReqs

(***************************************************************************)
(* Characters and strings.                                                 *)
(***************************************************************************)
Upper == <<"A","B","C","D","E","F","G","H","I","J","K","L","M",
           "N","O","P","Q","R","S","T","U","V","W","X","Y","Z">>
Lower == <<"a","b","c","d","e","f","g","h","i","j","k","l","m",
           "n","o","p","q","r","s","t","u","v","w","x","y","z">>

\* String.prototype.toLowerCase, one character
LowerOf == [c \in {Upper[i] : i \in 1..Len(Upper)} |->
                Lower[CHOOSE i \in 1..Len(Upper) : Upper[i] = c]]
LowerChar(c) == IF c \in DOMAIN LowerOf THEN LowerOf[c] ELSE c

\* String.prototype.toLowerCase
toLowerCase(s) == [i \in 1..Len(s) |-> LowerChar(s[i])]

\* the characters String.prototype.trim removes
IsWs(c) == c \in {" ", "\n", "\t", "\r"}

RECURSIVE TrimStart(_)
TrimStart(s) ==
    IF s = <<>> THEN <<>>
    ELSE IF IsWs(Head(s)) THEN TrimStart(Tail(s)) ELSE s

RECURSIVE TrimEnd(_)
TrimEnd(s) ==
    IF s = <<>> THEN <<>>
    ELSE IF IsWs(s[Len(s)]) THEN TrimEnd(SubSeq(s, 1, Len(s) - 1)) ELSE s

\* String.prototype.trim (the OneEach variant removes at most one whitespace
\* character from each end)
trimOneEach(s) ==
    LET a == IF s # <<>> /\ IsWs(Head(s)) THEN Tail(s) ELSE s
    IN  IF a # <<>> /\ IsWs(a[Len(a)]) THEN SubSeq(a, 1, Len(a) - 1) ELSE a
trim(s) == TrimEnd(TrimStart(s))

\* String.prototype.slice(0, n) for n >= 0
SliceTo(s, n) == SubSeq(s, 1, IF n < Len(s) THEN n ELSE Len(s))

\* Array.prototype.slice(0, n): a negative n counts from the end
ArraySliceTo(a, n) ==
    LET stop == IF n < 0 THEN (IF Len(a) + n < 0 THEN 0 ELSE Len(a) + n)
                ELSE (IF n < Len(a) THEN n ELSE Len(a))
    IN  SubSeq(a, 1, stop)

\* String.prototype.endsWith
EndsWith(s, suffix) ==
    /\ Len(s) >= Len(suffix)
    /\ SubSeq(s, Len(s) - Len(suffix) + 1, Len(s)) = suffix

\* decimal digits of a natural number, as String(n) writes them
Digit(d) == <<"0","1","2","3","4","5","6","7","8","9">>[d + 1]

RECURSIVE Digits(_)
Digits(n) == IF n < 10 THEN <<Digit(n)>> ELSE Digits(n \div 10) \o <<Digit(n % 10)>>

(***************************************************************************)
(* JavaScript values that reach the handler: undefined, null, strings and  *)
(* numbers.  s holds what String(v) yields for a string or a number.       *)
(***************************************************************************)
Undefined == [t |-> "undefined", s |-> <<>>]
Null      == [t |-> "null", s |-> <<>>]
Str(s)    == [t |-> "string", s |-> s]
Num(n)    == [t |-> "number", s |-> Digits(n)]

\* ToBoolean on the values above that the handler tests (!payload[k], a || b)
Truthy(v) == v.t = "string" /\ Len(v.s) > 0

\* (v || '') for a payload value
OrEmpty(v) == IF Truthy(v) THEN v.s ELSE <<>>

(***************************************************************************)
(* Environment (lines 34-39).  A variable is a set: empty when unset,      *)
(* else holding its value.                                                 *)
(***************************************************************************)
\* a || b on an optional string: the empty string and unset are both falsy
OrDefault(opt, dflt) == IF opt = {} \/ "" \in opt THEN dflt ELSE CHOOSE x \in opt : TRUE

MODEL_NAME == OrDefault(env.MODEL_NAME, "gpt-5-mini")
FALLBACK_MODEL == OrDefault(env.FALLBACK_MODEL, "gpt-4o-mini")

EnvChoices ==
    [OPENAI_API_KEY : {{}, {"sk-key"}},
     MODEL_NAME     : {{}, {"gpt-4o-mini"}},
     FALLBACK_MODEL : {{}, {"gpt-5-mini"}}]

(***************************************************************************)
(* The asset tree.  Rule files have fixed names the code never inspects;   *)
(* the names in mini_templates/ and samples/ are matched against           *)
(* /\.(txt|md)$/i, so they are character sequences.                        *)
(***************************************************************************)
Dirs == {"rules", "mini_templates", "samples"}
RuleFileNames == {"master_rules.txt", "structure_guide.txt", "quality_checklist.txt",
                  "master_template.txt", "master_templete.txt"}

\* contents of the rule files
RuleText(name) ==
    CASE name = "master_rules.txt"      -> <<"R","1">>
      [] name = "structure_guide.txt"   -> <<"G","1">>
      [] name = "quality_checklist.txt" -> <<"Q","1">>
      [] name = "master_template.txt"   -> <<"T","1">>
      [] name = "master_templete.txt"   -> <<"T","2">>

File(name, text) == [name |-> name, text |-> text]

N_notes_pdf   == <<"n","o","t","e","s",".","p","d","f">>
N_sponsor_md  == <<"s","p","o","n","s","o","r",".","m","d">>
N_Refusal_TXT == <<"R","e","f","u","s","a","l",".","T","X","T">>
N_readme      == <<"R","E","A","D","M","E">>
N_s1_txt      == <<"s","1",".","t","x","t">>
N_s2_md       == <<"s","2",".","m","d">>

\* directory listings the process may find at start
MiniListings ==
    { <<>>,
      <<File(N_notes_pdf, <<"x">>)>>,
      <<File(N_notes_pdf, <<"x">>), File(N_sponsor_md, <<"s","p">>)>>,
      <<File(N_Refusal_TXT, <<"r","f">>), File(N_sponsor_md, <<"s","p">>)>> }
SampleListings ==
    { <<>>,
      <<File(N_readme, <<"x">>)>>,
      <<File(N_s1_txt, <<" ","D","e","a","r"," ">>), File(N_s2_md, <<"S","i","r">>)>> }

FsChoices ==
    { f \in [dirs : SUBSET Dirs, rules : SUBSET RuleFileNames,
             minis : MiniListings, samples : SampleListings] :
        /\ ("rules" \notin f.dirs => f.rules = {})
        /\ ("mini_templates" \notin f.dirs => f.minis = <<>>)
        /\ ("samples" \notin f.dirs => f.samples = <<>>) }

\* lines 83-85: every asset directory is created when absent
MkdirAll(f) == [f EXCEPT !.dirs = Dirs]

\* lines 87-93
requireFile(f, name, label) ==
    IF name \notin f.rules
    THEN [exit |-> TRUE, err |-> <<[what |-> "Missing required", asset |-> label]>>,
          text |-> <<>>]
    ELSE [exit |-> FALSE, err |-> <<>>, text |-> RuleText(name)]

\* /\.(txt|md)$/i.test(name)
IsTxtOrMd(name) ==
    \/ EndsWith(toLowerCase(name), <<".","t","x","t">>)
    \/ EndsWith(toLowerCase(name), <<".","m","d">>)

\* lines 94-108 (the Lax variant accepts a directory without a matching file)
requireAtLeastOneTxtLax(f, dir, listing) ==
    [exit |-> FALSE, err |-> <<>>,
     files |-> SelectSeq(listing, LAMBDA x : IsTxtOrMd(x.name))]
requireAtLeastOneTxt(f, dir, listing) ==
    IF dir \notin f.dirs
    THEN [exit |-> TRUE, err |-> <<[what |-> "Missing required directory", asset |-> dir]>>,
          files |-> <<>>]
    ELSE LET files == SelectSeq(listing, LAMBDA x : IsTxtOrMd(x.name))
         IN  IF Len(files) = 0
             THEN [exit |-> TRUE,
                   err |-> <<[what |-> "No .txt/.md files found in", asset |-> dir]>>,
                   files |-> <<>>]
             ELSE [exit |-> FALSE, err |-> <<>>, files |-> files]

NoSOP == [masterRules |-> <<>>, structureGuide |-> <<>>, qualityChecklist |-> <<>>,
          masterTemplate |-> <<>>, minis |-> <<>>, samples |-> <<>>]

\* lines 115-136: each require* ends the process at the first asset it misses
loadSOPStrict(f) ==
    LET r1 == requireFile(f, "master_rules.txt", "rules/master_rules.txt")
        r2 == requireFile(f, "structure_guide.txt", "rules/structure_guide.txt")
        r3 == requireFile(f, "quality_checklist.txt", "rules/quality_checklist.txt")
        m1 == "master_template.txt" \in f.rules
        m2 == "master_templete.txt" \in f.rules
        mn == requireAtLeastOneTxt(f, "mini_templates", f.minis)
        sm == requireAtLeastOneTxt(f, "samples", f.samples)
        fail(e) == [exit |-> TRUE, err |-> e, sop |-> NoSOP]
    IN  IF r1.exit THEN fail(r1.err)
        ELSE IF r2.exit THEN fail(r2.err)
        ELSE IF r3.exit THEN fail(r3.err)
        ELSE IF ~m1 /\ ~m2
             THEN fail(<<[what |-> "Missing required", asset |-> "rules/master_template.txt"]>>)
        ELSE IF mn.exit THEN fail(mn.err)
        ELSE IF sm.exit THEN fail(sm.err)
        ELSE [exit |-> FALSE, err |-> <<>>,
              sop |-> [masterRules |-> r1.text, structureGuide |-> r2.text,
                       qualityChecklist |-> r3.text,
                       masterTemplate |-> IF m1 THEN RuleText("master_template.txt")
                                          ELSE RuleText("master_templete.txt"),
                       minis |-> mn.files, samples |-> sm.files]]

(***************************************************************************)
(* Style digest (lines 110-113, 139-150).                                  *)
(***************************************************************************)
ClipMark == <<"\n", "...">>      \* the two characters '\n' and the ellipsis

\* lines 110-113
clip(text, max) ==
    IF Len(text) <= max THEN trim(text) ELSE trim(SliceTo(text, max)) \o ClipMark

\* line 144: `\n\n### Sample ${i + 1}: ${name}\n${chunk}`, k = i + 1
SampleEntry(k, name, chunk) ==
    <<"\n","\n","#","#","#"," ","S","a","m","p","l","e"," ">> \o Digits(k)
        \o <<":"," ">> \o name \o <<"\n">> \o chunk

\* line 145: would appending next exceed the budget ?  (IgnoringNext measures
\* out alone)
OverBudgetIgnoringNext(out, next, totalChars) == Len(out) > totalChars
OverBudget(out, next, totalChars) == Len(out \o next) > totalChars

\* lines 142-147, from entry k on (the Skipping variant goes on to the next
\* sample where the code breaks)
RECURSIVE DigestLoopSkipping(_, _, _, _, _)
DigestLoopSkipping(use, k, out, perFileChars, totalChars) ==
    IF k > Len(use) THEN out
    ELSE LET next == SampleEntry(k, use[k].name, clip(use[k].text, perFileChars))
         IN  IF OverBudget(out, next, totalChars)
             THEN DigestLoopSkipping(use, k + 1, out, perFileChars, totalChars)
             ELSE DigestLoopSkipping(use, k + 1, out \o next, perFileChars, totalChars)

RECURSIVE DigestLoop(_, _, _, _, _)
DigestLoop(use, k, out, perFileChars, totalChars) ==
    IF k > Len(use) THEN out
    ELSE LET next == SampleEntry(k, use[k].name, clip(use[k].text, perFileChars))
         IN  IF OverBudget(out, next, totalChars) THEN out
             ELSE DigestLoop(use, k + 1, out \o next, perFileChars, totalChars)

\* lines 139-149
buildStyleDigest(files, o) ==
    trim(DigestLoop(ArraySliceTo(files, o.maxFiles), 1, <<>>, o.perFileChars, o.totalChars))

\* the defaults of line 139
DefaultMaxFiles == 10
DefaultPerFileChars == 900
DefaultTotalChars == 5000
DigestDefaults == [maxFiles |-> DefaultMaxFiles, perFileChars |-> DefaultPerFileChars,
                   totalChars |-> DefaultTotalChars]

(***************************************************************************)
(* Intake: clean, the canonical payload, sponsorship and validation.       *)
(***************************************************************************)
\* lines 159-163 (the Untrimmed variant leaves out .trim())
cleanUntrimmed(v) ==
    IF v.t = "undefined" \/ v.t = "null" THEN Undefined
    ELSE IF Len(v.s) > 0 THEN Str(v.s) ELSE Undefined
clean(v) ==
    IF v.t = "undefined" \/ v.t = "null" THEN Undefined
    ELSE LET s == trim(v.s) IN IF Len(s) > 0 THEN Str(s) ELSE Undefined

\* line 518
required == <<"name", "age", "nationality", "destination", "visaType", "purpose", "income">>
RequiredSet == {required[i] : i \in 1..Len(required)}

SponsorFields == {"funding", "sponsorSelf", "sponsorName", "sponsorRelationship"}

\* lines 436-515: the keys of the payload, in the order they are written
PayloadKeys ==
    <<"applicationType",
      "name", "age", "nationality", "applicantAddress", "contactPhone", "contactEmail",
      "dateOfBirth", "passportNumber", "passportIssueDate", "passportExpiryDate",
      "maritalStatus", "numDependents",
      "destination", "visaType", "purpose", "travelDates", "entryDate", "stayDuration",
      "invited", "inviterName", "inviterAddress", "inviterRelationship", "inviterDocs",
      "stayDetails", "travelItinerary",
      "occupation", "employerName", "employerAddress", "employmentDuration", "income",
      "otherIncome", "funding", "bankStatementDetails", "significantTransactions",
      "monthlyExpenses", "currentBankBalance", "estimatedTripCost",
      "propertyDetails", "businessCommitments", "familyDependents", "otherCommitments",
      "travelHistory", "visaRefusals", "validVisas",
      "sponsorSelf", "sponsorName", "sponsorRelationship", "sponsorOccupation",
      "sponsorIncome", "sponsorAccommodation", "sponsorDocs",
      "specialEvents", "compellingReasons", "supportingLetters", "potentialWeaknesses",
      "accommodation", "documents", "embassyName", "embassyAddress", "companyName">>
Fields == {PayloadKeys[i] : i \in 1..Len(PayloadKeys)}

\* b.k on the request body: a key the body does not have reads as undefined
Get(b, k) == IF k \in DOMAIN b THEN b[k] ELSE Undefined

\* line 514: the default of companyName
V_NoGuide == <<"N","o"," ","G","u","i","d","e"," ","T","r","a","v","e","l"," ",
               "A","g","e","n","t">>

\* lines 436-515
Payload(b) ==
    [k \in Fields |->
        IF k = "companyName" /\ ~Truthy(clean(Get(b, k))) THEN Str(V_NoGuide)
        ELSE clean(Get(b, k))]

W_sponsor     == <<"s","p","o","n","s","o","r">>
W_sponsored   == <<"s","p","o","n","s","o","r","e","d">>
W_sponsorship == <<"s","p","o","n","s","o","r","s","h","i","p">>
W_family      == <<"f","a","m","i","l","y">>
W_employer    == <<"e","m","p","l","o","y","e","r">>
W_no          == <<"n","o">>

\* lines 173-179 (the ByFunding variant looks at the funding field only)
isSponsoredByFunding(b) ==
    toLowerCase(OrEmpty(b.funding)) \in {W_sponsor, W_sponsored, W_sponsorship, W_family, W_employer}
isSponsoredPayload(b) ==
    LET f == toLowerCase(OrEmpty(b.funding))
    IN  \/ f \in {W_sponsor, W_sponsored, W_sponsorship, W_family, W_employer}
        \/ toLowerCase(OrEmpty(b.sponsorSelf)) = W_no
        \/ Truthy(b.sponsorName) \/ Truthy(b.sponsorRelationship)

\* lines 523-524: the entries pushed for the sponsor fields
SponsorNameEntry == "sponsorName (required when funding involves a sponsor/family/employer)"
SponsorRelationshipEntry == "sponsorRelationship (required when funding involves a sponsor/family)"

\* line 519 (the FirstOnly variant stops at the first absent field)
MissingRequiredFirstOnly(p) ==
    SubSeq(SelectSeq(required, LAMBDA k : ~Truthy(p[k])), 1, 1)
MissingRequired(p) == SelectSeq(required, LAMBDA k : ~Truthy(p[k]))

\* lines 521-525 (the NameOnly variant leaves out line 524)
MissingSponsorNameOnly(p) ==
    IF isSponsoredPayload(p)
    THEN (IF ~Truthy(p.sponsorName) THEN <<SponsorNameEntry>> ELSE <<>>)
    ELSE <<>>
MissingSponsor(p) ==
    IF isSponsoredPayload(p)
    THEN (IF ~Truthy(p.sponsorName) THEN <<SponsorNameEntry>> ELSE <<>>)
         \o (IF ~Truthy(p.sponsorRelationship) THEN <<SponsorRelationshipEntry>> ELSE <<>>)
    ELSE <<>>

\* lines 518-525: const missing, after the sponsor sanity check
Missing(p) == MissingRequired(p) \o MissingSponsor(p)

(***************************************************************************)
(* Numbers (parseNum, lines 166-170, and the arithmetic of lines 196-197). *)
(* A Number is a sign, an integer part and a fraction counted in units of  *)
(* 10^-FracDigits; nan marks NaN.                                          *)
(***************************************************************************)
FracDigits == 4     \* fraction digits a Number keeps

RECURSIVE Pow10(_)
Pow10(k) == IF k = 0 THEN 1 ELSE 10 * Pow10(k - 1)

NaN == [nan |-> TRUE, neg |-> FALSE, int |-> 0, frac |-> 0]
Number(neg, int, frac) == [nan |-> FALSE, neg |-> neg, int |-> int, frac |-> frac]

IsDigit(c) == c \in {"0","1","2","3","4","5","6","7","8","9"}
DigitValue(c) == CHOOSE d \in 0..9 : Digit(d) = c

\* the longest prefix of s made of digits
RECURSIVE DigitPrefix(_)
DigitPrefix(s) ==
    IF s = <<>> \/ ~IsDigit(Head(s)) THEN <<>> ELSE <<Head(s)>> \o DigitPrefix(Tail(s))

\* the value of a digit string read as an integer
RECURSIVE IntOf(_)
IntOf(ds) == IF ds = <<>> THEN 0 ELSE 10 * IntOf(SubSeq(ds, 1, Len(ds) - 1)) + DigitValue(ds[Len(ds)])

\* the value of a digit string read as a fraction, in units of 10^-FracDigits
FracOf(ds) ==
    LET kept == SubSeq(ds, 1, IF Len(ds) < FracDigits THEN Len(ds) ELSE FracDigits)
    IN  IntOf(kept) * Pow10(FracDigits - Len(kept))

\* parseFloat on a string of digits, '.' and '-': an optional sign, digits, an
\* optional '.' and digits; what follows the longest such prefix is ignored
parseFloat(s) ==
    LET neg  == s # <<>> /\ Head(s) = "-"
        body == IF neg THEN Tail(s) ELSE s
        ip   == DigitPrefix(body)
        rest == SubSeq(body, Len(ip) + 1, Len(body))
        fp   == IF rest # <<>> /\ Head(rest) = "." THEN DigitPrefix(Tail(rest)) ELSE <<>>
    IN  IF ip = <<>> /\ fp = <<>> THEN NaN ELSE Number(neg, IntOf(ip), FracOf(fp))

\* line 168: replace(/[^0-9.\-]/g, '')
StripNonNumeric(s) == SelectSeq(s, LAMBDA c : IsDigit(c) \/ c = "." \/ c = "-")

\* lines 166-170
parseNum(x) == IF ~Truthy(x) THEN NaN ELSE parseFloat(StripNonNumeric(x.s))

\* Number.isFinite
IsFinite(n) == ~n.nan

IsZero(n) == n.int = 0 /\ n.frac = 0
MagGe(a, b) == a.int > b.int \/ (a.int = b.int /\ a.frac >= b.frac)

\* a - b on two finite Numbers
Minus(a, b) ==
    LET unit == Pow10(FracDigits)
    IN  IF a.neg # b.neg
        THEN \* the magnitudes add
             LET f == a.frac + b.frac
             IN  Number(a.neg, a.int + b.int + (f \div unit), f % unit)
        ELSE IF MagGe(a, b)
             THEN LET borrow == IF a.frac < b.frac THEN 1 ELSE 0
                  IN  Number(a.neg, a.int - b.int - borrow,
                             a.frac + borrow * unit - b.frac)
             ELSE LET borrow == IF b.frac < a.frac THEN 1 ELSE 0
                  IN  Number(~a.neg, b.int - a.int - borrow,
                             b.frac + borrow * unit - a.frac)

\* n > 0 and n >= 0 (NaN compares false; -0 >= 0)
GtZero(n) == ~n.nan /\ ~n.neg /\ ~IsZero(n)
GeZero(n) == ~n.nan /\ (~n.neg \/ IsZero(n))

\* three digits, zero-padded
Pad3(n) == <<Digit(n \div 100), Digit((n \div 10) % 10), Digit(n % 10)>>

\* the integer part with a comma between groups of three digits
RECURSIVE Grouped(_)
Grouped(n) == IF n < 1000 THEN Digits(n) ELSE Grouped(n \div 1000) \o <<",">> \o Pad3(n % 1000)

RECURSIVE DropTrailingZeros(_)
DropTrailingZeros(ds) ==
    IF ds # <<>> /\ ds[Len(ds)] = "0" THEN DropTrailingZeros(SubSeq(ds, 1, Len(ds) - 1))
    ELSE ds

\* the fraction in thousandths, halves rounded away from zero; 1000 when the
\* rounding carries into the integer part (the Truncated variant drops the
\* digits after the third)
ThousandthsTruncated(n) == n.frac \div Pow10(FracDigits - 3)
Thousandths(n) ==
    LET u == Pow10(FracDigits - 3)
    IN  (n.frac \div u) + (IF 2 * (n.frac % u) >= u THEN 1 ELSE 0)

\* line 198: Number.prototype.toLocaleString() under the en-US locale: grouped
\* integer digits and at most three fraction digits
toLocaleString(n) ==
    LET t  == Thousandths(n)
        ip == IF t = 1000 THEN n.int + 1 ELSE n.int
        fp == DropTrailingZeros(Pad3(IF t = 1000 THEN 0 ELSE t))
    IN  (IF n.neg THEN <<"-">> ELSE <<>>) \o Grouped(ip)
        \o (IF fp = <<>> THEN <<>> ELSE <<".">> \o fp)

(***************************************************************************)
(* Application type and rationale cues (lines 182-249).  A cue is the      *)
(* template the code writes, ${} marking each interpolation, and the       *)
(* interpolated strings.                                                   *)
(***************************************************************************)
W_reapp   == <<"r","e","a","p","p">>
W_study   == <<"s","t","u","d","y">>
W_medical == <<"m","e","d","i","c","a","l">>
W_yes     == <<"y","e","s">>

\* String.prototype.includes
Includes(s, part) ==
    \E i \in 1..(Len(s) - Len(part) + 1) : SubSeq(s, i, i + Len(part) - 1) = part

\* lines 182-187
detectApplicationType(p) ==
    IF Includes(toLowerCase(OrEmpty(p.applicationType)), W_reapp) THEN "Reapplication"
    ELSE IF Truthy(p.visaRefusals) THEN "Reapplication"
    ELSE "First-time"

Cue(text, args) == [text |-> text, args |-> args]

MarginText == "Funds cover the estimated trip cost with a remaining balance of about ${}."
BalanceText == "Bank balance indicates capacity to fund the trip."

\* (v || dflt) for a payload value and a default string
OrChars(v, dflt) == IF Truthy(v) THEN v.s ELSE dflt

V_employer_dflt == <<"e","m","p","l","o","y","e","r">>
V_family_member == <<"f","a","m","i","l","y"," ","m","e","m","b","e","r">>
V_relationship_stated ==
    <<"r","e","l","a","t","i","o","n","s","h","i","p"," ","s","t","a","t","e","d">>

\* lines 193-201
FundsCues(p) ==
    LET bal  == parseNum(p.currentBankBalance)
        trip == parseNum(p.estimatedTripCost)
    IN  IF IsFinite(bal) /\ IsFinite(trip) /\ GtZero(trip)
        THEN LET margin == Minus(bal, trip)
             IN  IF GeZero(margin) THEN <<Cue(MarginText, <<toLocaleString(margin)>>)>>
                 ELSE <<>>
        ELSE IF IsFinite(bal) THEN <<Cue(BalanceText, <<>>)>>
        ELSE <<>>

\* lines 203-204
IncomeCues(p) ==
    IF Truthy(p.income) THEN <<Cue("Stable monthly income declared: ${}.", <<p.income.s>>)>>
    ELSE <<>>

\* lines 206-215
SponsorCues(p) ==
    LET f == toLowerCase(OrEmpty(p.funding))
    IN  IF ~Truthy(p.funding) THEN <<>>
        ELSE IF f = W_employer
        THEN IF Truthy(p.employerName) \/ Truthy(p.employerAddress)
             THEN <<Cue("Employer support documented (${}), including travel cost coverage where stated.",
                        <<OrChars(p.employerName, V_employer_dflt)>>)>>
             ELSE <<>>
        ELSE IF f = W_family
        THEN IF Truthy(p.sponsorName) \/ Truthy(p.sponsorRelationship)
             THEN <<Cue("Family sponsorship declared by ${} (${}), with supporting documents.",
                        <<OrChars(p.sponsorName, V_family_member),
                          OrChars(p.sponsorRelationship, V_relationship_stated)>>)>>
             ELSE <<>>
        ELSE IF f = W_sponsor
        THEN IF Truthy(p.sponsorName)
             THEN <<Cue("Third-party sponsorship by ${}${}, with financial evidence provided.",
                        <<p.sponsorName.s,
                          IF Truthy(p.sponsorRelationship)
                          THEN <<" ", "(">> \o p.sponsorRelationship.s \o <<")">>
                          ELSE <<>>  >>)>>
             ELSE <<>>
        ELSE <<>>

\* lines 217-219
StayCues(p) ==
    (IF Truthy(p.stayDetails)
     THEN <<Cue("Accommodation/host details provided (${}...).", <<SliceTo(p.stayDetails.s, 80)>>)>>
     ELSE <<>>)
    \o (IF Truthy(p.invited) /\ toLowerCase(p.invited.s) = W_yes
        THEN <<Cue("Invitation and host supporting documents attached.", <<>>)>>
        ELSE <<>>)

\* Array.prototype.join
RECURSIVE Join(_, _)
Join(list, sep) ==
    IF list = <<>> THEN <<>>
    ELSE IF Len(list) = 1 THEN list[1]
    ELSE list[1] \o sep \o Join(Tail(list), sep)

T_property == <<"p","r","o","p","e","r","t","y"," ","o","w","n","e","r","s","h","i","p">>
T_employment ==
    <<"o","n","g","o","i","n","g"," ","e","m","p","l","o","y","m","e","n","t","/","b","u","s","i","n","e","s","s">>
T_dependents == <<"f","a","m","i","l","y"," ","d","e","p","e","n","d","e","n","t","s">>

\* lines 221-226: the ties found, then the one cue that joins them
Ties(p) ==
    (IF Truthy(p.propertyDetails) THEN <<T_property>> ELSE <<>>)
    \o (IF Truthy(p.businessCommitments) \/ Truthy(p.employerName)
        THEN <<T_employment>> ELSE <<>>)
    \o (IF Truthy(p.familyDependents) THEN <<T_dependents>> ELSE <<>>)
TiesCues(p) ==
    IF Len(Ties(p)) > 0
    THEN <<Cue("Strong ties to Nigeria: ${}.", <<Join(Ties(p), <<",", " ">>)>>)>>
    ELSE <<>>

\* lines 228-229
HistoryCues(p) ==
    IF Truthy(p.validVisas) \/ Truthy(p.travelHistory)
    THEN <<Cue("Prior travel/visa history demonstrates compliance with immigration rules.", <<>>)>>
    ELSE <<>>

\* lines 231-237
ReapplicationCues(p, appType) ==
    IF appType # "Reapplication" THEN <<>>
    ELSE (IF Truthy(p.visaRefusals)
          THEN <<Cue("This submission provides new/clearer evidence addressing the refusal points.", <<>>)>>
          ELSE <<>>)
      \o (IF Truthy(p.significantTransactions)
          THEN <<Cue("Large/irregular transactions are explained in context.", <<>>)>>
          ELSE <<>>)
      \o (IF Truthy(p.bankStatementDetails)
          THEN <<Cue("Bank statement trend and details are clarified.", <<>>)>>
          ELSE <<>>)
      \o (IF Truthy(p.sponsorDocs)
          THEN <<Cue("Sponsor documentation is included to close prior gaps.", <<>>)>>
          ELSE <<>>)

\* lines 239-245
VisaTypeCues(p) ==
    (IF toLowerCase(OrEmpty(p.visaType)) = W_study
     THEN <<Cue("The study period is time-bound and purpose-specific, with a clear plan to return to Nigeria.", <<>>)>>
     ELSE <<>>)
    \o (IF toLowerCase(OrEmpty(p.visaType)) = W_medical
        THEN <<Cue("Medical timeline and funding are defined, with intention to return after treatment.", <<>>)>>
        ELSE <<>>)

\* lines 191-245: const cues, before the cap
AllCues(p, appType) ==
    FundsCues(p) \o IncomeCues(p) \o SponsorCues(p) \o StayCues(p) \o TiesCues(p)
        \o HistoryCues(p) \o ReapplicationCues(p, appType) \o VisaTypeCues(p)

\* line 248: cues.slice(0, 8)
RationaleCap == 8
Uncapped(cues) == cues
CapCues(cues) == ArraySliceTo(cues, RationaleCap)

\* lines 190-249
buildRationalePoints(p, appType) == CapCues(AllCues(p, appType))

V_Reapplication == <<"R","e","a","p","p","l","i","c","a","t","i","o","n">>
V_First_time == <<"F","i","r","s","t","-","t","i","m","e">>
AppTypeChars(t) == IF t = "Reapplication" THEN V_Reapplication ELSE V_First_time

(***************************************************************************)
(* The fact sheet (detail lines, lines 530-602).                           *)
(***************************************************************************)
\* one entry per d.push, in order: the payload key whose value the line
\* carries, its label, and whether the push is unconditional.  The first line
\* carries the detected application type, not the payload's applicationType.
DetailTable ==
    <<
      [key |-> "applicationType", always |-> TRUE,
       label |-> <<"A","p","p","l","i","c","a","t","i","o","n"," ","T","y","p","e">>],
      [key |-> "name", always |-> TRUE,
       label |-> <<"F","u","l","l"," ","N","a","m","e">>],
      [key |-> "age", always |-> TRUE,
       label |-> <<"A","g","e">>],
      [key |-> "nationality", always |-> TRUE,
       label |-> <<"N","a","t","i","o","n","a","l","i","t","y">>],
      [key |-> "dateOfBirth", always |-> FALSE,
       label |-> <<"D","a","t","e"," ","o","f"," ","B","i","r","t","h">>],
      [key |-> "passportNumber", always |-> FALSE,
       label |-> <<"P","a","s","s","p","o","r","t"," ","N","u","m","b","e","r">>],
      [key |-> "passportIssueDate", always |-> FALSE,
       label |-> <<"P","a","s","s","p","o","r","t"," ","I","s","s","u","e"," ","D","a","t","e">>],
      [key |-> "passportExpiryDate", always |-> FALSE,
       label |-> <<"P","a","s","s","p","o","r","t"," ","E","x","p","i","r","y"," ","D","a","t","e">>],
      [key |-> "maritalStatus", always |-> FALSE,
       label |-> <<"M","a","r","i","t","a","l"," ","S","t","a","t","u","s">>],
      [key |-> "numDependents", always |-> FALSE,
       label |-> <<"N","u","m","b","e","r"," ","o","f"," ","D","e","p","e","n","d","e","n","t","s">>],
      [key |-> "applicantAddress", always |-> FALSE,
       label |-> <<"A","d","d","r","e","s","s">>],
      [key |-> "contactPhone", always |-> FALSE,
       label |-> <<"P","h","o","n","e">>],
      [key |-> "contactEmail", always |-> FALSE,
       label |-> <<"E","m","a","i","l">>],
      [key |-> "destination", always |-> TRUE,
       label |-> <<"D","e","s","t","i","n","a","t","i","o","n">>],
      [key |-> "visaType", always |-> TRUE,
       label |-> <<"V","i","s","a"," ","T","y","p","e">>],
      [key |-> "travelDates", always |-> FALSE,
       label |-> <<"T","r","a","v","e","l"," ","D","a","t","e","s">>],
      [key |-> "entryDate", always |-> FALSE,
       label |-> <<"E","n","t","r","y"," ","D","a","t","e">>],
      [key |-> "stayDuration", always |-> FALSE,
       label |-> <<"D","u","r","a","t","i","o","n"," ","o","f"," ","S","t","a","y">>],
      [key |-> "purpose", always |-> TRUE,
       label |-> <<"P","u","r","p","o","s","e"," ","o","f"," ","T","r","a","v","e","l">>],
      [key |-> "invited", always |-> FALSE,
       label |-> <<"I","n","v","i","t","e","d"," ","b","y"," ","s","o","m","e","o","n","e","?">>],
      [key |-> "inviterName", always |-> FALSE,
       label |-> <<"I","n","v","i","t","e","r"," ","N","a","m","e">>],
      [key |-> "inviterAddress", always |-> FALSE,
       label |-> <<"I","n","v","i","t","e","r"," ","A","d","d","r","e","s","s">>],
      [key |-> "inviterRelationship", always |-> FALSE,
       label |-> <<"I","n","v","i","t","e","r"," ","R","e","l","a","t","i","o","n","s","h","i","p">>],
      [key |-> "inviterDocs", always |-> FALSE,
       label |-> <<"I","n","v","i","t","e","r"," ","D","o","c","u","m","e","n","t","s">>],
      [key |-> "stayDetails", always |-> FALSE,
       label |-> <<"A","c","c","o","m","m","o","d","a","t","i","o","n","/","H","o","s","t"," ","D","e","t","a","i","l","s">>],
      [key |-> "travelItinerary", always |-> FALSE,
       label |-> <<"T","r","a","v","e","l"," ","I","t","i","n","e","r","a","r","y">>],
      [key |-> "occupation", always |-> FALSE,
       label |-> <<"O","c","c","u","p","a","t","i","o","n">>],
      [key |-> "employerName", always |-> FALSE,
       label |-> <<"E","m","p","l","o","y","e","r","/","B","u","s","i","n","e","s","s"," ","N","a","m","e">>],
      [key |-> "employerAddress", always |-> FALSE,
       label |-> <<"E","m","p","l","o","y","e","r","/","B","u","s","i","n","e","s","s"," ","A","d","d","r","e","s","s">>],
      [key |-> "employmentDuration", always |-> FALSE,
       label |-> <<"E","m","p","l","o","y","m","e","n","t"," ","D","u","r","a","t","i","o","n">>],
      [key |-> "income", always |-> TRUE,
       label |-> <<"M","o","n","t","h","l","y"," ","I","n","c","o","m","e">>],
      [key |-> "otherIncome", always |-> FALSE,
       label |-> <<"O","t","h","e","r"," ","I","n","c","o","m","e">>],
      [key |-> "funding", always |-> FALSE,
       label |-> <<"F","u","n","d","i","n","g"," ","S","o","u","r","c","e">>],
      [key |-> "bankStatementDetails", always |-> FALSE,
       label |-> <<"B","a","n","k"," ","S","t","a","t","e","m","e","n","t"," ","D","e","t","a","i","l","s">>],
      [key |-> "significantTransactions", always |-> FALSE,
       label |-> <<"S","i","g","n","i","f","i","c","a","n","t"," ","T","r","a","n","s","a","c","t","i","o","n","s">>],
      [key |-> "monthlyExpenses", always |-> FALSE,
       label |-> <<"M","o","n","t","h","l","y"," ","E","x","p","e","n","s","e","s">>],
      [key |-> "currentBankBalance", always |-> FALSE,
       label |-> <<"C","u","r","r","e","n","t"," ","B","a","n","k"," ","B","a","l","a","n","c","e">>],
      [key |-> "estimatedTripCost", always |-> FALSE,
       label |-> <<"E","s","t","i","m","a","t","e","d"," ","T","r","i","p"," ","C","o","s","t">>],
      [key |-> "accommodation", always |-> FALSE,
       label |-> <<"A","c","c","o","m","m","o","d","a","t","i","o","n">>],
      [key |-> "documents", always |-> FALSE,
       label |-> <<"S","u","p","p","o","r","t","i","n","g"," ","D","o","c","u","m","e","n","t","s">>],
      [key |-> "propertyDetails", always |-> FALSE,
       label |-> <<"P","r","o","p","e","r","t","y"," ","D","e","t","a","i","l","s">>],
      [key |-> "businessCommitments", always |-> FALSE,
       label |-> <<"B","u","s","i","n","e","s","s","/","E","m","p","l","o","y","m","e","n","t"," ","C","o","m","m","i","t","m","e","n","t","s">>],
      [key |-> "familyDependents", always |-> FALSE,
       label |-> <<"F","a","m","i","l","y","/","D","e","p","e","n","d","e","n","t","s">>],
      [key |-> "otherCommitments", always |-> FALSE,
       label |-> <<"O","t","h","e","r"," ","C","o","m","m","i","t","m","e","n","t","s">>],
      [key |-> "travelHistory", always |-> FALSE,
       label |-> <<"T","r","a","v","e","l"," ","H","i","s","t","o","r","y">>],
      [key |-> "visaRefusals", always |-> FALSE,
       label |-> <<"V","i","s","a"," ","R","e","f","u","s","a","l","s">>],
      [key |-> "validVisas", always |-> FALSE,
       label |-> <<"V","a","l","i","d"," ","V","i","s","a","s">>],
      [key |-> "sponsorSelf", always |-> FALSE,
       label |-> <<"S","e","l","f","-","s","p","o","n","s","o","r","e","d">>],
      [key |-> "sponsorName", always |-> FALSE,
       label |-> <<"S","p","o","n","s","o","r"," ","N","a","m","e">>],
      [key |-> "sponsorRelationship", always |-> FALSE,
       label |-> <<"S","p","o","n","s","o","r"," ","R","e","l","a","t","i","o","n","s","h","i","p">>],
      [key |-> "sponsorOccupation", always |-> FALSE,
       label |-> <<"S","p","o","n","s","o","r"," ","O","c","c","u","p","a","t","i","o","n">>],
      [key |-> "sponsorIncome", always |-> FALSE,
       label |-> <<"S","p","o","n","s","o","r"," ","I","n","c","o","m","e">>],
      [key |-> "sponsorAccommodation", always |-> FALSE,
       label |-> <<"S","p","o","n","s","o","r"," ","A","c","c","o","m","m","o","d","a","t","i","o","n"," ","P","r","o","v","i","d","e","d","?">>],
      [key |-> "sponsorDocs", always |-> FALSE,
       label |-> <<"S","p","o","n","s","o","r"," ","D","o","c","u","m","e","n","t","s">>],
      [key |-> "specialEvents", always |-> FALSE,
       label |-> <<"S","p","e","c","i","a","l"," ","E","v","e","n","t","s","/","E","x","t","r","a","s">>],
      [key |-> "compellingReasons", always |-> FALSE,
       label |-> <<"C","o","m","p","e","l","l","i","n","g"," ","R","e","a","s","o","n","s">>],
      [key |-> "supportingLetters", always |-> FALSE,
       label |-> <<"S","u","p","p","o","r","t","i","n","g"," ","L","e","t","t","e","r","s","/","D","o","c","s">>],
      [key |-> "potentialWeaknesses", always |-> FALSE,
       label |-> <<"P","o","t","e","n","t","i","a","l"," ","W","e","a","k","n","e","s","s","e","s">>],
      [key |-> "companyName", always |-> TRUE,
       label |-> <<"C","o","m","p","a","n","y">>],
      [key |-> "embassyName", always |-> FALSE,
       label |-> <<"E","m","b","a","s","s","y"," ","N","a","m","e">>],
      [key |-> "embassyAddress", always |-> FALSE,
       label |-> <<"E","m","b","a","s","s","y"," ","A","d","d","r","e","s","s">>]
    >>

\* `${label}: ${value}`
DetailLine(label, value) == label \o <<":", " ">> \o value

\* String(v) inside a template literal, for a payload value
Interpolated(v) == IF v.t = "undefined" THEN <<"u","n","d","e","f","i","n","e","d">> ELSE v.s

\* (the Unconditional variant pushes every line, present or not)
RECURSIVE DetailFromUnconditional(_, _, _)
DetailFromUnconditional(i, p, appType) ==
    IF i > Len(DetailTable) THEN <<>>
    ELSE LET e == DetailTable[i]
             line == IF i = 1 THEN DetailLine(e.label, AppTypeChars(appType))
                     ELSE DetailLine(e.label, Interpolated(p[e.key]))
         IN  <<line>> \o DetailFromUnconditional(i + 1, p, appType)

RECURSIVE DetailFrom(_, _, _)
DetailFrom(i, p, appType) ==
    IF i > Len(DetailTable) THEN <<>>
    ELSE LET e == DetailTable[i]
             line == IF i = 1 THEN DetailLine(e.label, AppTypeChars(appType))
                     ELSE DetailLine(e.label, Interpolated(p[e.key]))
         IN  (IF e.always \/ Truthy(p[e.key]) THEN <<line>> ELSE <<>>)
             \o DetailFrom(i + 1, p, appType)

\* lines 530-602: const d
DetailLines(p) == DetailFrom(1, p, detectApplicationType(p))

(***************************************************************************)
(* The regular expressions of buildMessages (lines 256-283, 311), each     *)
(* built from literals matched without regard to case, \s* between them,   *)
(* an anchor (^|\n)\s* in front and, for some, \S+ behind.                 *)
(***************************************************************************)
L_visa_refusals == <<"v","i","s","a"," ","r","e","f","u","s","a","l","s">>
L_previous_visa_refusals == <<"p","r","e","v","i","o","u","s"," ","v","i","s","a"," ","r","e","f","u","s","a","l","s">>
L_colon == <<":">>
L_occupation == <<"o","c","c","u","p","a","t","i","o","n",":">>
L_employment_status == <<"e","m","p","l","o","y","m","e","n","t"," ","s","t","a","t","u","s",":">>
L_self_employed == <<"s","e","l","f","-","e","m","p","l","o","y","e","d">>
L_medical_label == <<"m","e","d","i","c","a","l",":">>
L_visa_type == <<"v","i","s","a"," ","t","y","p","e",":">>
L_business == <<"b","u","s","i","n","e","s","s">>
L_tourist == <<"t","o","u","r","i","s","t">>
L_potential_weaknesses == <<"p","o","t","e","n","t","i","a","l"," ","w","e","a","k","n","e","s","s","e","s",":">>
L_travel_history == <<"t","r","a","v","e","l"," ","h","i","s","t","o","r","y",":">>
L_refusal == <<"r","e","f","u","s","a","l">>
L_visit == <<"v","i","s","i","t">>
L_destination == <<"d","e","s","t","i","n","a","t","i","o","n">>
L_destination_country == <<"d","e","s","t","i","n","a","t","i","o","n"," ","c","o","u","n","t","r","y">>
L_visa_type_label == <<"v","i","s","a"," ","t","y","p","e">>
L_purpose_of_travel == <<"p","u","r","p","o","s","e"," ","o","f"," ","t","r","a","v","e","l">>
L_owner == <<"o","w","n","e","r">>
L_self == <<"s","e","l","f">>
L_founder == <<"f","o","u","n","d","e","r">>
L_ceo == <<"c","e","o">>
L_proprietor == <<"p","r","o","p","r","i","e","t","o","r">>
V_Visitor == <<"V","i","s","i","t","o","r">>
V_Destination_dflt == <<"[","D","e","s","t","i","n","a","t","i","o","n","]">>

\* the first position at or after k that holds no white space (\s* is greedy
\* and every literal starts with a character that is not white space)
RECURSIVE SkipWs(_, _)
SkipWs(text, k) ==
    IF k <= Len(text) /\ IsWs(text[k]) THEN SkipWs(text, k + 1) ELSE k

\* the lower-case literal lit is at position k of text, whatever the case
LitAt(text, k, lit) ==
    /\ k + Len(lit) - 1 <= Len(text)
    /\ \A n \in 1..Len(lit) : LowerChar(text[k + n - 1]) = lit[n]

\* \s*lit1\s*lit2... matches from position k on; the position after the match,
\* 0 when there is none
RECURSIVE MatchEnd(_, _, _)
MatchEnd(text, k, lits) ==
    IF lits = <<>> THEN k
    ELSE LET j == SkipWs(text, k)
         IN  IF LitAt(text, j, Head(lits))
             THEN MatchEnd(text, j + Len(Head(lits)), Tail(lits))
             ELSE 0

\* positions where (^|\n) matches: the start of the text and after each \n
Anchors(text) == {1} \cup {i \in 2..(Len(text) + 1) : text[i - 1] = "\n"}

\* /(^|\n)\s*lit1\s*lit2.../i
AnchoredTest(text, lits) == \E i \in Anchors(text) : MatchEnd(text, i, lits) > 0

\* /(^|\n)\s*lit1\s*lit2...\s*\S+/i
AnchoredTestNonWs(text, lits) ==
    \E i \in Anchors(text) :
        LET e == MatchEnd(text, i, lits) IN e > 0 /\ SkipWs(text, e) <= Len(text)

\* /lit1\s*\S+/i, anywhere in the text
AnywhereTestNonWs(text, lit) ==
    \E i \in 1..Len(text) :
        LitAt(text, i, lit) /\ SkipWs(text, i + Len(lit)) <= Len(text)

\* /lit/i, anywhere in the text
AnywhereTest(text, lit) == Includes(toLowerCase(text), lit)

\* \w
IsWordChar(c) == LowerChar(c) \in {Lower[i] : i \in 1..Len(Lower)} \/ IsDigit(c) \/ c = "_"

\* /\brefusal(s)?\b/i
RefusalWordTest(text) ==
    \E i \in 1..Len(text) :
        /\ LitAt(text, i, L_refusal)
        /\ (i = 1 \/ ~IsWordChar(text[i - 1]))
        /\ LET e == i + Len(L_refusal)
           IN  \/ e > Len(text) \/ ~IsWordChar(text[e])
               \/ /\ LowerChar(text[e]) = "s"
                  /\ (e + 1 > Len(text) \/ ~IsWordChar(text[e + 1]))

\* the end of the line that holds position k (the position of its \n, or
\* Len + 1)
RECURSIVE LineEnd(_, _)
LineEnd(text, k) ==
    IF k > Len(text) \/ text[k] = "\n" THEN k ELSE LineEnd(text, k + 1)

\* lines 256-259: getField(label), /^label\s*:\s*(.+)$/mi on joined, trimmed;
\* the first line that matches counts
getField(joined, label) ==
    LET hits == {i \in Anchors(joined) :
                    LET e == MatchEnd(joined, i, <<label>>)
                        c == IF e > 0 THEN SkipWs(joined, e) ELSE 0
                    IN  /\ e = i + Len(label)
                        /\ c > 0 /\ c <= Len(joined) /\ joined[c] = ":"
                        /\ SkipWs(joined, c + 1) <= Len(joined)}
    IN  IF hits = {} THEN Undefined
        ELSE LET i == CHOOSE h \in hits : \A g \in hits : h <= g
                 v == SkipWs(joined, SkipWs(joined, i + Len(label)) + 1)
             IN  Str(trim(SubSeq(joined, v, LineEnd(joined, v) - 1)))

(***************************************************************************)
(* buildMessages (lines 252-390).  The prompt is kept by its parts: the    *)
(* tone of the system message; the subject line, the closing paragraph of  *)
(* the outline, the clipped policy texts, the style digest, the mini       *)
(* blocks, the rationale cues and the scenario hints of the guide; and the *)
(* fact lines of the user instruction.  scenario holds the locals of lines *)
(* 264-277 and the condition of line 311, which decide those parts.        *)
(***************************************************************************)
\* lines 153-156: getMini(namePart); '' when no file name includes namePart
\* (the Exact variant compares the name without lower-casing it)
MiniHits(namePart) ==
    {i \in 1..Len(SOP.minis) : Includes(toLowerCase(SOP.minis[i].name), namePart)}
getMiniExact(namePart) ==
    LET hits == {i \in 1..Len(SOP.minis) : Includes(SOP.minis[i].name, namePart)}
    IN  IF hits = {} THEN <<>>
        ELSE clip(SOP.minis[CHOOSE i \in hits : \A j \in hits : i <= j].text, 1400)
getMini(namePart) ==
    IF MiniHits(namePart) = {} THEN <<>>
    ELSE clip(SOP.minis[CHOOSE i \in MiniHits(namePart) :
                            \A j \in MiniHits(namePart) : i <= j].text, 1400)

M_refusal       == <<"r","e","f","u","s","a","l">>
M_sponsor       == <<"s","p","o","n","s","o","r">>
M_self_employed == <<"s","e","l","f","_","e","m","p","l","o","y","e","d">>
M_medical       == <<"m","e","d","i","c","a","l">>
M_business      == <<"b","u","s","i","n","e","s","s">>
M_tourist       == <<"t","o","u","r","i","s","t">>

\* lines 264-266: refusalPresent
refusalPresent(joined, purpose) ==
    \/ AnchoredTest(joined, <<L_visa_refusals, L_colon>>)
    \/ AnchoredTest(joined, <<L_previous_visa_refusals, L_colon>>)
    \/ RefusalWordTest(purpose)

\* lines 270-271
selfEmployed(joined) ==
    \/ \E w \in {L_owner, L_self, L_founder, L_ceo, L_proprietor} :
          AnchoredTest(joined, <<L_occupation, w>>)
    \/ AnchoredTest(joined, <<L_employment_status, L_self_employed>>)

\* lines 273-275
isMedical(joined) ==
    \/ AnchoredTest(joined, <<L_medical_label>>)
    \/ AnchoredTest(joined, <<L_visa_type, M_medical>>)
isBusiness(joined) == AnchoredTest(joined, <<L_visa_type, L_business>>)
isTourist(joined) == AnchoredTest(joined, <<L_visa_type, L_tourist>>)

\* line 277
hasWeaknesses(joined) == AnchoredTestNonWs(joined, <<L_potential_weaknesses>>)

\* line 311: the condition of the tourist first-time block
touristFirstTime(joined) ==
    isTourist(joined) /\ ~AnywhereTestNonWs(joined, L_travel_history)

\* lines 280-283 (the OfTwo variant has no courteous tone)
ToneOfTwo(joined, visaType) ==
    IF isMedical(joined) \/ hasWeaknesses(joined)
    THEN "Warm, empathetic and respectful, but concise and professional."
    ELSE "Formal, direct, and professional."
Tone(joined, visaType) ==
    IF isMedical(joined) \/ hasWeaknesses(joined)
    THEN "Warm, empathetic and respectful, but concise and professional."
    ELSE IF isTourist(joined) \/ AnywhereTest(visaType, L_visit)
            \/ AnywhereTest(visaType, W_study)
    THEN "Courteous, positive, and professional."
    ELSE "Formal, direct, and professional."

ReapplicationHint ==
    "Reapplication after refusal: provide a brief, factual clarification to each refusal point and show new evidence."
SponsoredHint ==
    "Sponsored: identify sponsor, relationship, income, accommodation support, and list sponsor documents clearly."
SelfEmployedHint ==
    "Self-employed: reference business registration (CAC), tax returns, and invoices where provided."

\* lines 287-302: const hints
Hints(joined, purpose, p) ==
    (IF refusalPresent(joined, purpose) \/ detectApplicationType(p) = "Reapplication"
     THEN <<ReapplicationHint>> ELSE <<>>)
    \o (IF isSponsoredPayload(p) THEN <<SponsoredHint>> ELSE <<>>)
    \o (IF selfEmployed(joined) THEN <<SelfEmployedHint>> ELSE <<>>)

\* a mini block, when the mini-template has text
Block(header, t) == IF t # <<>> THEN <<[header |-> header, text |-> t]>> ELSE <<>>

\* lines 286-314: const blocks
Blocks(joined, purpose, p) ==
    (IF refusalPresent(joined, purpose) \/ detectApplicationType(p) = "Reapplication"
     THEN Block("--- MINI (Reapplication) ---", getMini(M_refusal)) ELSE <<>>)
    \o (IF isSponsoredPayload(p)
        THEN Block("--- MINI (Sponsor) ---", getMini(M_sponsor)) ELSE <<>>)
    \o (IF selfEmployed(joined)
        THEN Block("--- MINI (Self-employed) ---", getMini(M_self_employed)) ELSE <<>>)
    \o (IF isMedical(joined)
        THEN Block("--- MINI (Medical) ---", getMini(M_medical)) ELSE <<>>)
    \o (IF isBusiness(joined)
        THEN Block("--- MINI (Business/Conference) ---", getMini(M_business)) ELSE <<>>)
    \o (IF touristFirstTime(joined)
        THEN Block("--- MINI (Tourist First-time) ---", getMini(M_tourist)) ELSE <<>>)

\* lines 350-352: the closing paragraph of the outline
MeritsNow == "Why my application merits approval now"
Merits == "Why my application merits approval"

\* line 374: the text under SCENARIO HINTS
NoHints == "(none)"
HintsSection(hints) ==
    IF Len(hints) > 0 THEN [i \in 1..Len(hints) |-> "- " \o hints[i]] ELSE <<NoHints>>

\* line 369: what stands for an empty style digest
V_no_samples == <<"(","n","o"," ","s","a","m","p","l","e","s","?"," ","b","u","t"," ","s","e","r","v","e","r"," ","w","o","u","l","d"," ","h","a","v","e"," ","r","e","f","u","s","e","d"," ","t","o"," ","s","t","a","r","t",")">>

\* lines 252-390 (an empty rationale list is rendered as the line
\* '(no explicit cues; infer from facts above)', lines 318-320)
buildMessages(detailLines, payload) ==
    LET joined == Join(detailLines, <<"\n">>)
        dest1  == getField(joined, L_destination)
        dest2  == getField(joined, L_destination_country)
        vt     == getField(joined, L_visa_type_label)
        pu     == getField(joined, L_purpose_of_travel)
        destination == IF Truthy(dest1) THEN dest1.s
                       ELSE IF Truthy(dest2) THEN dest2.s ELSE V_Destination_dflt
        visaType == OrChars(vt, V_Visitor)
        purpose  == OrEmpty(pu)
        appType  == detectApplicationType(payload)
        hints    == Hints(joined, purpose, payload)
    IN  [system |-> [tone |-> Tone(joined, visaType)],
         guide  |-> [visaType |-> visaType,
                     destination |-> destination,
                     merits |-> IF appType = "Reapplication" THEN MeritsNow ELSE Merits,
                     masterRules |-> clip(SOP.masterRules, 3000),
                     structureGuide |-> clip(SOP.structureGuide, 1800),
                     qualityChecklist |-> clip(SOP.qualityChecklist, 1200),
                     masterTemplate |-> clip(SOP.masterTemplate, 2500),
                     styleDigest |-> IF STYLE_DIGEST # <<>> THEN STYLE_DIGEST ELSE V_no_samples,
                     blocks |-> Blocks(joined, purpose, payload),
                     rationale |-> buildRationalePoints(payload, appType),
                     hints |-> HintsSection(hints)],
         user   |-> [facts |-> detailLines],
         scenario |-> [refusalPresent |-> refusalPresent(joined, purpose),
                       appType |-> appType,
                       sponsored |-> isSponsoredPayload(payload),
                       selfEmployed |-> selfEmployed(joined),
                       isMedical |-> isMedical(joined),
                       isBusiness |-> isBusiness(joined),
                       isTourist |-> isTourist(joined),
                       touristFirstTime |-> touristFirstTime(joined),
                       hasWeaknesses |-> hasWeaknesses(joined)]]

(***************************************************************************)
(* Responses (res.status(..).json(..)).  keys are the keys of the JSON     *)
(* body; a key that is not in keys has its empty value.                    *)
(***************************************************************************)
BadRequest == 400
BadGateway == 502
Ok == 200
InternalError == 500

\* line 527; fields is the list that missing.join(', ') writes out
ValidationError(m) ==
    [status |-> BadRequest, keys |-> {"error"}, error |-> "Missing required fields",
     fields |-> m, detail |-> "", letter |-> <<>>]

\* line 606
EmptyResult ==
    [status |-> BadGateway, keys |-> {"error"}, error |-> "The AI returned no content.",
     fields |-> <<>>, detail |-> "", letter |-> <<>>]

\* line 608
Success(letter) ==
    [status |-> Ok, keys |-> {"letter"}, error |-> "", fields |-> <<>>, detail |-> "",
     letter |-> letter.s]

\* an optional number is truthy when set and not 0, an optional string when
\* set and not ''
NumTruthy(o) == o # {} /\ 0 \notin o
StrTruthy(o) == o # {} /\ "" \notin o
The(o) == CHOOSE x \in o : TRUE

\* line 611: err?.status || err?.statusCode || 500
\* (the Fixed variant answers 500 whatever the error carries)
ErrStatusFixed(err) == InternalError
ErrStatus(err) ==
    IF NumTruthy(err.status) THEN The(err.status)
    ELSE IF NumTruthy(err.statusCode) THEN The(err.statusCode)
    ELSE InternalError

\* lines 612-615
GenerationFailure(err) ==
    [status |-> ErrStatus(err), keys |-> {"error", "detail"},
     error |-> "Failed to generate letter", fields |-> <<>>,
     detail |-> IF StrTruthy(err.message) THEN The(err.message) ELSE "unknown_error",
     letter |-> <<>>]

(***************************************************************************)
(* The generation client, as the handler sees it: a call returns a         *)
(* completion or throws an error.                                          *)
(***************************************************************************)
\* what resp.choices?.[0]?.message?.content may be
Contents == { Undefined, Str(<<>>), Str(<<" ", "\n">>), Str(<<" ","D","e","a","r"," ">>) }

\* errors the client throws: an API error carries status, a transport error none
Errors == [status : {{}, {502}}, statusCode : {{}, {503}},
           message : {{}, {"Rate limit exceeded"}}]

\* resp.choices?.[0]?.message?.content?.trim()  (lines 402, 410, 421)
\* (the NoTrim variant leaves out .trim())
LetterOfNoTrim(content) ==
    IF content.t = "undefined" \/ content.t = "null" THEN Undefined ELSE Str(content.s)
LetterOf(content) ==
    IF content.t = "undefined" \/ content.t = "null" THEN Undefined
    ELSE Str(trim(content.s))

\* line 394
isGPT5Mini == MODEL_NAME \in {"gpt-5-mini"}

\* lines 396-411: the request sent to the primary model
PrimaryCall ==
    [target |-> "primary", model |-> MODEL_NAME, tuned |-> ~isGPT5Mini,
     outcome |-> "pending", content |-> {}]

\* lines 415-420: the request sent to the fallback model
FallbackCall ==
    [target |-> "fallback", model |-> FALLBACK_MODEL, tuned |-> TRUE,
     outcome |-> "pending", content |-> {}]

\* line 414 (the Always variant does not compare the two model names)
AlwaysFallback == TRUE
HasFallback == FALLBACK_MODEL # "" /\ FALLBACK_MODEL # MODEL_NAME

(***************************************************************************)
(* Request bodies.  Each field has the raw values a client may send.       *)
(***************************************************************************)
V_Ada      == <<" ","A","d","a"," ">>
V_Nigerian == <<"N","i","g","e","r","i","a","n">>
V_UK       == <<"U","K">>
V_Tourist  == <<"T","o","u","r","i","s","t">>
V_Holiday  == <<"H","o","l","i","d","a","y">>
V_income   == <<"4","5","0","0","0","0">>
V_Family   == <<" ","F","a","m","i","l","y"," ">>
V_EMPLOYER == <<"E","M","P","L","O","Y","E","R">>
V_savings  == <<"s","a","v","i","n","g","s">>
V_No       == <<"N","o">>
V_yes      == <<"y","e","s">>
V_Bob      == <<"B","o","b">>
V_uncle    == <<"u","n","c","l","e">>

\* every raw value tried for a field
IntakeDomain(k) ==
    CASE k = "name"        -> {Undefined, Null, Str(<<" ">>), Str(V_Ada)}
      [] k = "age"         -> {Undefined, Str(<<>>), Num(29)}
      [] k = "nationality" -> {Undefined, Str(V_Nigerian)}
      [] k = "destination" -> {Undefined, Str(V_UK)}
      [] k = "visaType"    -> {Undefined, Str(V_Tourist)}
      [] k = "purpose"     -> {Undefined, Str(V_Holiday)}
      [] k = "income"      -> {Undefined, Str(V_income)}
      [] k = "funding"     -> {Undefined, Str(W_sponsor), Str(V_Family), Str(V_EMPLOYER),
                               Str(V_savings)}
      [] k = "sponsorSelf" -> {Undefined, Str(V_No), Str(V_yes)}
      [] k = "sponsorName" -> {Undefined, Str(V_Bob)}
      [] k = "sponsorRelationship" -> {Undefined, Str(<<" ">>), Str(V_uncle)}

\* the raw values tried while requests interleave
ServeDomain(k) ==
    CASE k = "name"        -> {Undefined, Str(V_Ada)}
      [] k = "age"         -> {Num(29)}
      [] k = "nationality" -> {Str(V_Nigerian)}
      [] k = "destination" -> {Str(V_UK)}
      [] k = "visaType"    -> {Str(V_Tourist)}
      [] k = "purpose"     -> {Str(V_Holiday)}
      [] k = "income"      -> {Str(V_income)}
      [] k = "funding"     -> {Undefined, Str(W_sponsor)}
      [] k = "sponsorSelf" -> {Undefined}
      [] k = "sponsorName" -> {Undefined}
      [] k = "sponsorRelationship" -> {Undefined}

IntakeBodies ==
    [name : IntakeDomain("name"), age : IntakeDomain("age"),
     nationality : IntakeDomain("nationality"), destination : IntakeDomain("destination"),
     visaType : IntakeDomain("visaType"), purpose : IntakeDomain("purpose"),
     income : IntakeDomain("income"), funding : IntakeDomain("funding"),
     sponsorSelf : IntakeDomain("sponsorSelf"), sponsorName : IntakeDomain("sponsorName"),
     sponsorRelationship : IntakeDomain("sponsorRelationship")]

ServeBodies ==
    [name : ServeDomain("name"), age : ServeDomain("age"),
     nationality : ServeDomain("nationality"), destination : ServeDomain("destination"),
     visaType : ServeDomain("visaType"), purpose : ServeDomain("purpose"),
     income : ServeDomain("income"), funding : ServeDomain("funding"),
     sponsorSelf : ServeDomain("sponsorSelf"), sponsorName : ServeDomain("sponsorName"),
     sponsorRelationship : ServeDomain("sponsorRelationship")]

\* lines 437-514: the groups the payload literal is written in, as its comments
\* name them: explicit app type, Personal, Travel, Employment & Finances, Ties,
\* History, Sponsor, Additional, Branding / consular
PayloadGroups ==
    << {"applicationType"},
       {"name", "age", "nationality", "applicantAddress", "contactPhone", "contactEmail",
        "dateOfBirth", "passportNumber", "passportIssueDate", "passportExpiryDate",
        "maritalStatus", "numDependents"},
       {"destination", "visaType", "purpose", "travelDates", "entryDate", "stayDuration",
        "invited", "inviterName", "inviterAddress", "inviterRelationship", "inviterDocs",
        "stayDetails", "travelItinerary"},
       {"occupation", "employerName", "employerAddress", "employmentDuration", "income",
        "otherIncome", "funding", "bankStatementDetails", "significantTransactions",
        "monthlyExpenses", "currentBankBalance", "estimatedTripCost"},
       {"propertyDetails", "businessCommitments", "familyDependents", "otherCommitments"},
       {"travelHistory", "visaRefusals", "validVisas"},
       {"sponsorSelf", "sponsorName", "sponsorRelationship", "sponsorOccupation",
        "sponsorIncome", "sponsorAccommodation", "sponsorDocs"},
       {"specialEvents", "compellingReasons", "supportingLetters", "potentialWeaknesses"},
       {"accommodation", "documents", "embassyName", "embassyAddress", "companyName"} >>

\* req.body || {}: a body without keys
EmptyBody == [k \in {} |-> Undefined]

(***************************************************************************)
(* The handler of POST /generate-letter (lines 432-617), cut at its one    *)
(* await (line 605) and at the await inside createLetter's catch           *)
(* (line 415).                                                             *)
(***************************************************************************)
\* caught holds the err of the catch block at line 609 once it is entered
IdleReq == [pc |-> "idle", body |-> EmptyBody, payload |-> <<>>, missing |-> <<>>,
            messages |-> <<>>, calls |-> <<>>, caught |-> {}, resp |-> <<>>]

\* a response is sent and the handler returns (in the AndGoOn variant the
\* handler does not return)
FinishAndGoOn(q, response) == [q EXCEPT !.resp = Append(@, response)]
Finish(q, response) == [q EXCEPT !.pc = "done", !.resp = Append(@, response)]

\* the call in flight returns content c / throws
Returned(q, c) ==
    [q EXCEPT !.calls[Len(q.calls)].outcome = "returned", !.calls[Len(q.calls)].content = {c}]
Threw(q) == [q EXCEPT !.calls[Len(q.calls)].outcome = "threw"]

\* lines 434-528 and 604-605: from the body to the 400 response or to the
\* primary call of createLetter (the CallBeforeValidating variant starts the
\* call before it looks at missing)
CallBeforeValidating(b) ==
    LET p == Payload(b)
        m == Missing(p)
        q == [IdleReq EXCEPT !.body = b, !.payload = p, !.missing = m,
                             !.calls = <<PrimaryCall>>]
    IN  IF Len(m) > 0 THEN Finish(q, ValidationError(m))
        ELSE [q EXCEPT !.pc = "awaitPrimary",
                       !.messages = buildMessages(DetailLines(p), p)]
Accept(b) ==
    LET p == Payload(b)
        m == Missing(p)
        q == [IdleReq EXCEPT !.body = b, !.payload = p, !.missing = m]
    IN  IF Len(m) > 0 THEN Finish(q, ValidationError(m))
        ELSE [q EXCEPT !.pc = "awaitPrimary",
                       !.messages = buildMessages(DetailLines(p), p),
                       !.calls = <<PrimaryCall>>]

\* lines 605-608: createLetter returned letter (in the Retrying variant an
\* empty letter from the primary model sends createLetter to the fallback)
AfterLetterRetrying(q, letter) ==
    IF ~Truthy(letter) /\ HasFallback /\ Len(q.calls) = 1
    THEN [q EXCEPT !.pc = "awaitFallback", !.calls = Append(@, FallbackCall)]
    ELSE IF ~Truthy(letter) THEN Finish(q, EmptyResult) ELSE Finish(q, Success(letter))
AfterLetter(q, letter) ==
    IF ~Truthy(letter) THEN Finish(q, EmptyResult) ELSE Finish(q, Success(letter))

\* lines 609-616: createLetter threw err
Caught(q, err) == Finish([q EXCEPT !.caught = {err}], GenerationFailure(err))

\* lines 412-424: the primary call threw err (the RetryPrimary variant calls
\* the primary model again)
RetryPrimary(q, err) ==
    [Threw(q) EXCEPT !.pc = "awaitPrimary", !.calls = Append(@, PrimaryCall)]
OnPrimaryError(q, err) ==
    IF HasFallback
    THEN [Threw(q) EXCEPT !.pc = "awaitFallback", !.calls = Append(@, FallbackCall)]
    ELSE Caught(Threw(q), err)

(***************************************************************************)
(* Actions.                                                                *)
(***************************************************************************)
NoDigestIn == [files |-> <<>>, o |-> DigestDefaults]
NoDigestOut == [done |-> FALSE, out |-> <<>>]
NotApplied == [fn |-> "none", arg |-> <<>>, done |-> FALSE, ret |-> <<>>]

Init ==
    /\ env \in EnvChoices
    /\ fs \in FsChoices
    /\ proc = "starting"
    /\ mkdirs = {}
    /\ stderr = <<>>
    /\ SOP = NoSOP
    /\ STYLE_DIGEST = <<>>
    /\ req = [r \in Reqs |-> IdleReq]
    /\ digestIn = NoDigestIn
    /\ digestOut = NoDigestOut
    /\ applied = NotApplied

\* the module's top level, lines 31-150 and 620: the process ends at the first
\* failed check, else it listens
Startup ==
    /\ proc = "starting"
    /\ IF ~StrTruthy(env.OPENAI_API_KEY)
       THEN /\ proc' = "exited"
            /\ stderr' = <<[what |-> "Missing", asset |-> "OPENAI_API_KEY"]>>
            /\ UNCHANGED <<fs, mkdirs, SOP, STYLE_DIGEST>>
       ELSE LET f == MkdirAll(fs)
                l == loadSOPStrict(f)
            IN  /\ fs' = f
                /\ mkdirs' = Dirs \ fs.dirs
                /\ stderr' = l.err
                /\ SOP' = l.sop
                /\ IF l.exit
                   THEN proc' = "exited" /\ UNCHANGED STYLE_DIGEST
                   ELSE /\ proc' = "listening"
                        /\ STYLE_DIGEST' = buildStyleDigest(l.sop.samples, DigestDefaults)
    /\ UNCHANGED <<env, req, digestIn, digestOut, applied>>

Serving == <<env, fs, proc, mkdirs, stderr, SOP, STYLE_DIGEST, digestIn, digestOut, applied>>

\* request r arrives with a body of B and runs to its first await or to its response
\* (in the SharedPayload variant the payload is one object of the module, which
\* the requests in flight see replaced)
ReceiveSharedPayload(r, B) ==
    /\ proc = "listening"
    /\ req[r].pc = "idle"
    /\ \E b \in B :
          req' = [q \in Reqs |->
                    IF q = r THEN Accept(b)
                    ELSE IF req[q].pc \in {"awaitPrimary", "awaitFallback"}
                         THEN [req[q] EXCEPT !.payload = Payload(b)]
                         ELSE req[q]]
    /\ UNCHANGED Serving
Receive(r, B) ==
    /\ proc = "listening"
    /\ req[r].pc = "idle"
    /\ \E b \in B : req' = [req EXCEPT ![r] = Accept(b)]
    /\ UNCHANGED Serving

\* the primary call returns a completion
PrimaryReturns(r) ==
    /\ req[r].pc = "awaitPrimary"
    /\ \E c \in Contents :
         req' = [req EXCEPT ![r] = AfterLetter(Returned(req[r], c), LetterOf(c))]
    /\ UNCHANGED Serving

\* the primary call throws
PrimaryThrows(r) ==
    /\ req[r].pc = "awaitPrimary"
    /\ \E e \in Errors : req' = [req EXCEPT ![r] = OnPrimaryError(req[r], e)]
    /\ UNCHANGED Serving

\* the fallback call returns a completion
FallbackReturns(r) ==
    /\ req[r].pc = "awaitFallback"
    /\ \E c \in Contents :
         req' = [req EXCEPT ![r] = AfterLetter(Returned(req[r], c), LetterOf(c))]
    /\ UNCHANGED Serving

\* the fallback call throws: the error leaves createLetter
FallbackThrows(r) ==
    /\ req[r].pc = "awaitFallback"
    /\ \E e \in Errors : req' = [req EXCEPT ![r] = Caught(Threw(req[r]), e)]
    /\ UNCHANGED Serving

Next ==
    \/ Startup
    \/ \E r \in Reqs : Receive(r, ServeBodies)
    \/ \E r \in Reqs : PrimaryReturns(r)
    \/ \E r \in Reqs : PrimaryThrows(r)
    \/ \E r \in Reqs : FallbackReturns(r)
    \/ \E r \in Reqs : FallbackThrows(r)

Spec == Init /\ [][Next]_vars

(***************************************************************************)
(* One request on a complete installation, with every raw value of every   *)
(* field.                                                                  *)
(***************************************************************************)
GoodFs ==
    [dirs |-> Dirs, rules |-> RuleFileNames \ {"master_templete.txt"},
     minis |-> <<File(N_Refusal_TXT, <<"r","f">>), File(N_sponsor_md, <<"s","p">>)>>,
     samples |-> <<File(N_s1_txt, <<" ","D","e","a","r"," ">>), File(N_s2_md, <<"S","i","r">>)>>]

DefaultEnv == [OPENAI_API_KEY |-> {"sk-key"}, MODEL_NAME |-> {}, FALLBACK_MODEL |-> {}]

InitIntake == Init /\ env = DefaultEnv /\ fs = GoodFs

NextIntake ==
    \/ Startup
    \/ Receive(1, IntakeBodies)
    \/ PrimaryReturns(1)
    \/ PrimaryThrows(1)
    \/ FallbackReturns(1)
    \/ FallbackThrows(1)

SpecIntake == InitIntake /\ [][NextIntake]_vars

(***************************************************************************)
(* buildStyleDigest on its own, over sample pools and option settings.     *)
(***************************************************************************)
N_a_md == <<"a",".","m","d">>

PoolFiles ==
    { File(n, t) : n \in {N_a_md, N_s1_txt},
                   t \in {<<>>, <<" ","x","y">>, <<"x","y","z","w","v","u">>} }

Pools == UNION { [1..n -> PoolFiles] : n \in 0..MaxPool }

DigestInputs ==
    [files : Pools,
     o : [maxFiles : 0..MaxFilesOpt, perFileChars : 0..MaxPerFile, totalChars : 0..MaxTotal]]

InitDigest ==
    /\ env = DefaultEnv
    /\ fs = GoodFs
    /\ proc = "starting"
    /\ mkdirs = {}
    /\ stderr = <<>>
    /\ SOP = NoSOP
    /\ STYLE_DIGEST = <<>>
    /\ req = [r \in Reqs |-> IdleReq]
    /\ digestIn \in DigestInputs
    /\ digestOut = NoDigestOut
    /\ applied = NotApplied

\* buildStyleDigest(files, o) is evaluated
ApplyDigest ==
    /\ ~digestOut.done
    /\ digestOut' = [done |-> TRUE, out |-> buildStyleDigest(digestIn.files, digestIn.o)]
    /\ UNCHANGED <<env, fs, proc, mkdirs, stderr, SOP, STYLE_DIGEST, req, digestIn, applied>>

NextDigest == ApplyDigest

SpecDigest == InitDigest /\ [][NextDigest]_vars

(***************************************************************************)
(* buildRationalePoints applied on its own to the payloads of bodies that  *)
(* vary the two amounts, the funding source, the visa type and the fields  *)
(* that produce cues.  N stands for a currency sign.                       *)
(***************************************************************************)
V_Study   == <<"S","t","u","d","y">>
V_MEDICAL == <<"M","E","D","I","C","A","L">>
V_x       == <<"x">>

Balances ==
    { Undefined, Str(<<"a","b","c">>),
      Str(<<"N","2",",","0","0","0",",","0","0","0">>), Str(<<"1","0","0","0">>),
      Str(<<"-","5">>), Str(<<"1","0",".","0","0","0","4">>),
      Str(<<"1","0",".","0","0","0","7">>), Str(<<"1","2","3","4",".","9","9","9","5">>),
      Str(<<"0",".","3">>), Str(<<"2","5","0","0",".","5","0">>) }
TripCosts ==
    { Undefined,
      Str(<<"N","1",",","2","0","0",",","0","0","0">>), Str(<<"1","0">>), Str(<<"0">>),
      Str(<<"2","3","5">>), Str(<<"0",".","1">>),
      Str(<<"2",",","0","0","0",",","0","0","0",".","5","0">>) }

RequiredOnly ==
    [name |-> Str(V_Ada), age |-> Num(29), nationality |-> Str(V_Nigerian),
     destination |-> Str(V_UK), visaType |-> Str(V_Tourist), purpose |-> Str(V_Holiday),
     income |-> Str(V_income)]

\* the fields buildRationalePoints reads besides the amounts, the funding
\* source and the visa type
CueFields ==
    {"employerName", "employerAddress", "sponsorName", "sponsorRelationship",
     "stayDetails", "propertyDetails", "businessCommitments", "familyDependents",
     "validVisas", "travelHistory", "visaRefusals", "significantTransactions",
     "bankStatementDetails", "sponsorDocs"}

CueProfiles ==
    { [k \in {} |-> Undefined],
      [k \in {"stayDetails", "propertyDetails"} |-> Str(V_x)] @@ [invited |-> Str(V_No)],
      [k \in CueFields |-> Str(V_x)] @@ [invited |-> Str(V_yes)] }

RationaleBodies ==
    { [currentBankBalance |-> bal, estimatedTripCost |-> trip, funding |-> f, visaType |-> vt]
        @@ prof @@ RequiredOnly :
        bal \in Balances, trip \in TripCosts,
        f \in {Undefined, Str(V_EMPLOYER), Str(V_Family), Str(W_sponsor)},
        vt \in {Str(V_Tourist), Str(V_Study), Str(V_MEDICAL)},
        prof \in CueProfiles }

InitRationale ==
    /\ env = DefaultEnv
    /\ fs = GoodFs
    /\ proc = "starting"
    /\ mkdirs = {}
    /\ stderr = <<>>
    /\ SOP = NoSOP
    /\ STYLE_DIGEST = <<>>
    /\ req = [r \in Reqs |-> IdleReq]
    /\ digestIn = NoDigestIn
    /\ digestOut = NoDigestOut
    /\ \E b \in RationaleBodies : \E t \in {"First-time", "Reapplication"} :
          applied = [fn |-> "buildRationalePoints", arg |-> [p |-> Payload(b), appType |-> t],
                     done |-> FALSE, ret |-> <<>>]

\* buildRationalePoints(p, appType) is evaluated
ApplyRationale ==
    /\ applied.fn = "buildRationalePoints"
    /\ ~applied.done
    /\ applied' = [applied EXCEPT !.done = TRUE,
                      !.ret = buildRationalePoints(applied.arg.p, applied.arg.appType)]
    /\ UNCHANGED <<env, fs, proc, mkdirs, stderr, SOP, STYLE_DIGEST, req, digestIn, digestOut>>

NextRationale == ApplyRationale

SpecRationale == InitRationale /\ [][NextRationale]_vars

(***************************************************************************)
(* One request at a time, over bodies that vary what the payload, the fact *)
(* sheet and the scenario detection depend on.                             *)
(***************************************************************************)
V_Medical   == <<"M","e","d","i","c","a","l">>
V_Business  == <<"B","u","s","i","n","e","s","s">>
V_Treatment == <<"M","e","d","i","c","a","l"," ","t","r","e","a","t","m","e","n","t">>
V_Appeal    == <<"V","i","s","i","t"," ","a","f","t","e","r"," ","a"," ","r","e","f","u","s","a","l">>
V_Reapply   == <<"R","E","A","P","P","L","Y">>
V_Renewal   == <<"R","e","n","e","w","a","l">>
V_Owner     == <<"O","w","n","e","r">>
V_2019      == <<"U","K"," ","2","0","1","9">>
V_padded    == <<" ","x"," ","y","\n">>
V_Hotel     == <<"H","o","t","e","l","\n","V","i","s","a"," ","R","e","f","u","s","a","l","s",
                 ":"," ","n","o","n","e">>

\* the payload keys that are neither required nor applicationType
OptionalKeys == Fields \ (RequiredSet \cup {"applicationType"})

\* one optional field present, alone or with the sponsor's identity
OneOptionalBodies ==
    {[k \in {f} |-> Str(V_x)] @@ RequiredOnly : f \in OptionalKeys}
    \cup {[k \in {f} |-> Str(V_x)] @@ [sponsorName |-> Str(V_Bob),
                                       sponsorRelationship |-> Str(V_uncle)] @@ RequiredOnly :
            f \in OptionalKeys}

\* every optional field present
AllOptionalBody == [k \in OptionalKeys |-> Str(V_x)] @@ RequiredOnly

\* raw values of every kind on a required and on three optional fields
RawKinds == {Undefined, Null, Str(<<>>), Str(<<" ", "\n">>), Num(0), Str(V_padded)}
RawBodies ==
    {[nationality |-> a, dateOfBirth |-> b, companyName |-> c, travelHistory |-> d]
        @@ RequiredOnly : a \in {Null, Str(V_padded)}, b \in RawKinds, c \in RawKinds,
                          d \in RawKinds}

\* what the scenario detection reads
ScenarioBodies ==
    {[applicationType |-> at, visaRefusals |-> vr, purpose |-> pu, visaType |-> vt,
      travelHistory |-> th, occupation |-> oc, potentialWeaknesses |-> pw] @@ RequiredOnly :
        at \in {Undefined, Str(V_Reapply), Str(V_Renewal)},
        vr \in {Undefined, Str(V_2019)},
        pu \in {Str(V_Holiday), Str(V_Treatment), Str(V_Appeal)},
        vt \in {Str(V_Tourist), Str(V_Medical), Str(V_Business)},
        th \in {Undefined, Str(V_x)},
        oc \in {Undefined, Str(V_Owner)},
        pw \in {Undefined, Str(V_x)}}

\* a value of several lines, one of which reads like a fact line
MultiLineBodies == {[stayDetails |-> Str(V_Hotel)] @@ RequiredOnly}

\* visa types the tone depends on
V_Family_visit == <<"F","a","m","i","l","y"," ","V","I","S","I","T">>
V_Transit      == <<"T","r","a","n","s","i","t">>
ToneBodies ==
    {[visaType |-> Str(vt), potentialWeaknesses |-> pw] @@ RequiredOnly :
        vt \in {V_Study, V_Family_visit, V_Transit, V_Business},
        pw \in {Undefined, Str(V_x)}}

ComposeBodies ==
    {RequiredOnly, AllOptionalBody} \cup OneOptionalBodies \cup RawBodies
        \cup ScenarioBodies \cup MultiLineBodies \cup ToneBodies

NextCompose ==
    \/ Startup
    \/ Receive(1, ComposeBodies)
    \/ PrimaryReturns(1)
    \/ PrimaryThrows(1)
    \/ FallbackReturns(1)
    \/ FallbackThrows(1)

SpecCompose == InitIntake /\ [][NextCompose]_vars

(***************************************************************************)
(* clean and isSponsoredPayload applied on their own.                      *)
(***************************************************************************)
MaxRaw == 4         \* longest raw string handed to clean on its own

RawChars == {" ", "\n", "a"}
RawStrings == UNION {[1..n -> RawChars] : n \in 0..MaxRaw}
CleanInputs == {Undefined, Null, Num(0), Num(29)} \cup {Str(s) : s \in RawStrings}

InitApplied(args) ==
    /\ env = DefaultEnv
    /\ fs = GoodFs
    /\ proc = "starting"
    /\ mkdirs = {}
    /\ stderr = <<>>
    /\ SOP = NoSOP
    /\ STYLE_DIGEST = <<>>
    /\ req = [r \in Reqs |-> IdleReq]
    /\ digestIn = NoDigestIn
    /\ digestOut = NoDigestOut
    /\ applied \in args

InitClean ==
    InitApplied({[fn |-> "clean", arg |-> v, done |-> FALSE, ret |-> <<>>] : v \in CleanInputs})

\* clean(v), and clean on what it returned
ApplyClean ==
    /\ applied.fn = "clean"
    /\ ~applied.done
    /\ applied' = [applied EXCEPT !.done = TRUE,
                      !.ret = [once |-> clean(applied.arg),
                               twice |-> clean(clean(applied.arg))]]
    /\ UNCHANGED <<env, fs, proc, mkdirs, stderr, SOP, STYLE_DIGEST, req, digestIn, digestOut>>

NextClean == ApplyClean

SpecClean == InitClean /\ [][NextClean]_vars

V_Sponsored   == <<"S","p","o","n","s","o","r","e","d">>
V_SPONSORSHIP == <<"S","P","O","N","S","O","R","S","H","I","P">>
V_family_bare == <<"F","a","m","i","l","y">>
V_sponsors    == <<"s","p","o","n","s","o","r","s">>
V_self        == <<"s","e","l","f">>
V_NO          == <<"N","O">>
V_non         == <<"n","o","n">>

SponsorInputs ==
    [funding : {Undefined, Str(W_sponsor), Str(V_Sponsored), Str(V_SPONSORSHIP),
                Str(V_family_bare), Str(V_EMPLOYER), Str(V_savings), Str(V_sponsors),
                Str(V_Family), Str(V_self)},
     sponsorSelf : {Undefined, Str(V_No), Str(V_NO), Str(V_yes), Str(V_non)},
     sponsorName : {Undefined, Str(V_Bob)},
     sponsorRelationship : {Undefined, Str(V_uncle)}]

InitSponsored ==
    InitApplied({[fn |-> "isSponsoredPayload", arg |-> b, done |-> FALSE, ret |-> FALSE] :
                    b \in SponsorInputs})

\* isSponsoredPayload(b) is evaluated
ApplySponsored ==
    /\ applied.fn = "isSponsoredPayload"
    /\ ~applied.done
    /\ applied' = [applied EXCEPT !.done = TRUE, !.ret = isSponsoredPayload(applied.arg)]
    /\ UNCHANGED <<env, fs, proc, mkdirs, stderr, SOP, STYLE_DIGEST, req, digestIn, digestOut>>

NextSponsored == ApplySponsored

SpecSponsored == InitSponsored /\ [][NextSponsored]_vars

(***************************************************************************)
(* One request at a time on installations that differ in their mini-       *)
(* templates.                                                              *)
(***************************************************************************)
N_refusal_old_txt == <<"r","e","f","u","s","a","l","_","o","l","d",".","t","x","t">>

MiniSets ==
    { <<File(N_Refusal_TXT, <<"r","f">>), File(N_sponsor_md, <<"s","p">>)>>,
      <<File(N_sponsor_md, <<"s","p">>)>>,
      <<File(N_Refusal_TXT, <<" ","\n">>), File(N_sponsor_md, <<"s","p">>)>>,
      <<File(N_refusal_old_txt, <<>>), File(N_Refusal_TXT, <<"r","f">>)>>,
      <<File(N_sponsor_md, <<"s","p">>), File(N_Refusal_TXT, <<" ","r","f","\n">>)>> }

InitMinis ==
    /\ env = DefaultEnv
    /\ \E m \in MiniSets : fs = [GoodFs EXCEPT !.minis = m]
    /\ proc = "starting"
    /\ mkdirs = {}
    /\ stderr = <<>>
    /\ SOP = NoSOP
    /\ STYLE_DIGEST = <<>>
    /\ req = [r \in Reqs |-> IdleReq]
    /\ digestIn = NoDigestIn
    /\ digestOut = NoDigestOut
    /\ applied = NotApplied

NextMinis ==
    \/ Startup
    \/ Receive(1, ScenarioBodies \cup {RequiredOnly})
    \/ PrimaryReturns(1)
    \/ PrimaryThrows(1)
    \/ FallbackReturns(1)
    \/ FallbackThrows(1)

SpecMinis == InitMinis /\ [][NextMinis]_vars

(***************************************************************************)
(* Several requests in flight on a complete installation, with bodies that *)
(* lead to different prompts.                                              *)
(***************************************************************************)
ConcurrentBodies ==
    { RequiredOnly,
      [visaRefusals |-> Str(V_2019)] @@ RequiredOnly,
      [funding |-> Str(W_sponsor), sponsorName |-> Str(V_Bob),
       sponsorRelationship |-> Str(V_uncle)] @@ RequiredOnly,
      [name |-> Null] @@ RequiredOnly }

NextConcurrent ==
    \/ Startup
    \/ \E r \in Reqs : Receive(r, ConcurrentBodies)
    \/ \E r \in Reqs : PrimaryReturns(r)
    \/ \E r \in Reqs : PrimaryThrows(r)
    \/ \E r \in Reqs : FallbackReturns(r)
    \/ \E r \in Reqs : FallbackThrows(r)

SpecConcurrent == InitIntake /\ [][NextConcurrent]_vars

(***************************************************************************)
(* Several requests whose generation calls settle: a call in flight        *)
(* returns or throws in the end.                                           *)
(***************************************************************************)
PrimarySettles(r) == PrimaryReturns(r) \/ PrimaryThrows(r)
FallbackSettles(r) == FallbackReturns(r) \/ FallbackThrows(r)

SpecSettles ==
    /\ InitIntake
    /\ [][NextConcurrent]_vars
    /\ \A r \in Reqs : WF_vars(PrimarySettles(r)) /\ WF_vars(FallbackSettles(r))

(***************************************************************************)
(* Properties.                                                             *)
(***************************************************************************)
Listed(m) == {m[i] : i \in 1..Len(m)}
Arrived(r) == req[r].pc # "idle"

\* the one response of r is the validation error listing m
RejectedWith(r, m) ==
    /\ Len(req[r].resp) = 1
    /\ req[r].resp[1].status = BadRequest
    /\ req[r].resp[1].error = "Missing required fields"
    /\ req[r].resp[1].fields = m

\* C1: the handler reports as missing exactly the required fields whose cleaned
\* value is absent (next to the sponsor entries): no present field is listed,
\* no absent one is left out or listed twice, and the request is rejected with
\* the validation error iff the list is not empty.
RequiredFieldCompleteness ==
    \A r \in Reqs : Arrived(r) =>
        LET p == Payload(req[r].body)
            m == req[r].missing
        IN  /\ Listed(m) \cap RequiredSet = {k \in RequiredSet : p[k] = Undefined}
            /\ Listed(m) \subseteq RequiredSet \cup {SponsorNameEntry, SponsorRelationshipEntry}
            /\ Cardinality(Listed(m)) = Len(m)
            /\ (m # <<>>) <=> RejectedWith(r, m)

\* a rejected request with several fields absent (one sent as blanks, one as
\* null or not at all) and at least one required field present
RequiredFieldWitness ==
    \E r \in Reqs :
        /\ req[r].pc = "done" /\ RejectedWith(r, req[r].missing)
        /\ req[r].body.name = Str(<<" ">>)
        /\ req[r].body.age = Str(<<>>)
        /\ req[r].body.income = Undefined
        /\ req[r].body.purpose = Str(V_Holiday)
        /\ Listed(req[r].missing) = {"name", "age", "income"}

\* C2: when isSponsoredPayload(payload) holds, an absent sponsorName and an
\* absent sponsorRelationship are each appended to the list of the base fields
\* and the caller gets one validation error naming all of them; when it does
\* not hold, neither sponsor field is reported.
SponsorFieldsMerged ==
    \A r \in Reqs : Arrived(r) =>
        LET p == Payload(req[r].body)
            m == req[r].missing
        IN  /\ isSponsoredPayload(p) =>
                /\ (SponsorNameEntry \in Listed(m)) <=> (p.sponsorName = Undefined)
                /\ (SponsorRelationshipEntry \in Listed(m)) <=> (p.sponsorRelationship = Undefined)
            /\ ~isSponsoredPayload(p) =>
                Listed(m) \cap {SponsorNameEntry, SponsorRelationshipEntry} = {}
            /\ Listed(m) \cap {SponsorNameEntry, SponsorRelationshipEntry} # {} =>
                RejectedWith(r, m)

\* funding "sponsor" without sponsorName and sponsorRelationship, and a base
\* field absent too: one error names the three
SponsorFieldsWitness ==
    \E r \in Reqs :
        /\ req[r].pc = "done"
        /\ req[r].body.funding = Str(W_sponsor)
        /\ req[r].body.sponsorName = Undefined
        /\ req[r].body.sponsorRelationship = Undefined
        /\ req[r].body.sponsorSelf = Undefined
        /\ RejectedWith(r, <<"income", SponsorNameEntry, SponsorRelationshipEntry>>)

\* the one response of r is the generation failure
FailedToGenerate(r) ==
    /\ Len(req[r].resp) = 1
    /\ req[r].resp[1].error = "Failed to generate letter"

Calls(r) == req[r].calls
CallsTo(r, target) == {i \in 1..Len(Calls(r)) : Calls(r)[i].target = target}

\* C3: a request that ends in the validation error (400, missing fields) has
\* made no call to the generation client, primary or fallback.
ValidationNeverReachesClient ==
    \A r \in Reqs : RejectedWith(r, req[r].missing) => Calls(r) = <<>>

\* a rejected request next to a valid one whose call is in flight
ValidationWitness ==
    \E r, v \in Reqs :
        /\ req[r].pc = "done" /\ RejectedWith(r, req[r].missing) /\ Calls(r) = <<>>
        /\ req[v].pc = "awaitPrimary" /\ Len(Calls(v)) = 1

\* C4, as stated: whenever the primary call throws, exactly one fallback call
\* is made, whatever MODEL_NAME and FALLBACK_MODEL are.
FallbackOnEveryConfiguration ==
    \A r \in Reqs :
        (Len(Calls(r)) >= 1 /\ Calls(r)[1].outcome = "threw") =>
            Cardinality(CallsTo(r, "fallback")) = 1

\* C4, amended: whenever the primary call throws and FALLBACK_MODEL differs
\* from MODEL_NAME, exactly one fallback call is made, on FALLBACK_MODEL; when
\* the two names are equal no fallback call is made and the primary failure
\* reaches the caller; a fallback call that throws reaches the caller too.
FallbackOnceWhenDistinct ==
    \A r \in Reqs :
        (Len(Calls(r)) >= 1 /\ Calls(r)[1].outcome = "threw") =>
            /\ FALLBACK_MODEL # MODEL_NAME =>
                /\ Cardinality(CallsTo(r, "fallback")) = 1
                /\ Calls(r)[2].model = FALLBACK_MODEL
                /\ Calls(r)[2].outcome = "threw" =>
                     req[r].pc = "done" /\ req[r].caught # {} /\ FailedToGenerate(r)
            /\ FALLBACK_MODEL = MODEL_NAME =>
                /\ CallsTo(r, "fallback") = {}
                /\ req[r].pc = "done" /\ req[r].caught # {} /\ FailedToGenerate(r)

\* a request whose primary call threw and whose one fallback call, on a
\* different model, threw too
FallbackWitness ==
    \E r \in Reqs :
        /\ FALLBACK_MODEL # MODEL_NAME
        /\ Len(Calls(r)) = 2 /\ Calls(r)[1].outcome = "threw"
        /\ Calls(r)[2].target = "fallback" /\ Calls(r)[2].outcome = "threw"
        /\ FailedToGenerate(r)

\* a request whose primary call threw while both names are the same model
FallbackSkipped ==
    \E r \in Reqs :
        /\ FALLBACK_MODEL = MODEL_NAME
        /\ Len(Calls(r)) = 1 /\ Calls(r)[1].outcome = "threw"
        /\ FailedToGenerate(r)

\* C5: a request calls the generation client at most twice: at most once on
\* the primary model, at most once on the fallback model, the fallback call
\* only after a primary call that threw, and nothing after a fallback call
\* that threw.
AtMostTwoCalls ==
    \A r \in Reqs :
        /\ Len(Calls(r)) <= 2
        /\ Cardinality(CallsTo(r, "primary")) <= 1
        /\ Cardinality(CallsTo(r, "fallback")) <= 1
        /\ \A i \in CallsTo(r, "fallback") :
              /\ i = 2 /\ Calls(r)[1].target = "primary" /\ Calls(r)[1].outcome = "threw"
              /\ Calls(r)[i].outcome = "threw" => req[r].pc = "done"
        /\ \A i \in 1..Len(Calls(r)) :
              Calls(r)[i].outcome = "returned" => i = Len(Calls(r)) /\ req[r].pc = "done"

\* two calls, the second on the fallback model, and it threw
AtMostTwoCallsWitness ==
    \E r \in Reqs :
        /\ Len(Calls(r)) = 2
        /\ Calls(r)[1].target = "primary" /\ Calls(r)[2].target = "fallback"
        /\ Calls(r)[2].outcome = "threw" /\ req[r].pc = "done"

\* C6: a request whose generation threw (after the fallback, when there was
\* one) gets exactly one response: keys error and detail, error "Failed to
\* generate letter", detail the error's message, status the error's status,
\* else its statusCode, else 500; and no letter.
FailureResponse ==
    \A r \in Reqs : \A e \in req[r].caught :
        /\ Len(req[r].resp) = 1
        /\ LET a == req[r].resp[1]
           IN  /\ a.keys = {"error", "detail"}
               /\ a.error = "Failed to generate letter"
               /\ a.letter = <<>>
               /\ a.detail = (IF e.message = {} THEN "unknown_error" ELSE The(e.message))
               /\ a.status = (IF e.status # {} THEN The(e.status)
                              ELSE IF e.statusCode # {} THEN The(e.statusCode)
                              ELSE InternalError)
        /\ Calls(r) # <<>>
        /\ Calls(r)[Len(Calls(r))].outcome = "threw"

\* a fallback failure carrying only statusCode and a message
FailureResponseWitness ==
    \E r \in Reqs : \E e \in req[r].caught :
        /\ e.status = {} /\ e.statusCode = {503} /\ e.message = {"Rate limit exceeded"}
        /\ Len(Calls(r)) = 2
        /\ Len(req[r].resp) = 1 /\ req[r].resp[1].status = 503
        /\ req[r].resp[1].detail = "Rate limit exceeded"

\* the text has no character other than white space
Blank(s) == \A i \in 1..Len(s) : s[i] \in {" ", "\n"}
NoUsableText(v) == v.t # "string" \/ Blank(v.s)

\* C7: a request whose last call returned without usable text (no content, an
\* empty string, white space only) gets exactly one response: 502 with the
\* single key error, "The AI returned no content."; a generation failure never
\* carries that body, and a call that returned text never gets it.
EmptyResultResponse ==
    \A r \in Reqs :
        /\ \A i \in 1..Len(Calls(r)) : \A c \in Calls(r)[i].content :
              /\ Len(req[r].resp) = 1
              /\ LET a == req[r].resp[1]
                 IN  IF NoUsableText(c)
                     THEN /\ a.status = BadGateway
                          /\ a.keys = {"error"}
                          /\ a.error = "The AI returned no content."
                          /\ a.letter = <<>>
                     ELSE /\ a.status = Ok
                          /\ a.keys = {"letter"}
                          /\ a.letter = trim(c.s) /\ ~Blank(a.letter)
        /\ req[r].caught # {} =>
              /\ Len(req[r].resp) = 1
              /\ req[r].resp[1].error # "The AI returned no content."
              /\ req[r].resp[1].keys # {"error"}

\* a white-space-only result next to a generation failure with upstream
\* status 502: same status, different bodies
EmptyResultWitness ==
    \E r, f \in Reqs :
        /\ Calls(r) # <<>>
        /\ Calls(r)[Len(Calls(r))].content = {Str(<<" ", "\n">>)}
        /\ req[r].resp = <<EmptyResult>>
        /\ req[f].caught # {} /\ req[f].resp[1].status = BadGateway
        /\ req[f].resp[1].keys = {"error", "detail"}

\* the mandatory assets the asset tree f lacks, by the name the log gives them
HasTxtOrMd(listing) == \E i \in 1..Len(listing) : IsTxtOrMd(listing[i].name)
MandatoryMissing(f) ==
    {"rules/" \o n : n \in {"master_rules.txt", "structure_guide.txt",
                            "quality_checklist.txt"} \ f.rules}
    \cup (IF f.rules \cap {"master_template.txt", "master_templete.txt"} = {}
          THEN {"rules/master_template.txt"} ELSE {})
    \cup (IF HasTxtOrMd(f.minis) THEN {} ELSE {"mini_templates"})
    \cup (IF HasTxtOrMd(f.samples) THEN {} ELSE {"samples"})

Reported == {stderr[i].asset : i \in 1..Len(stderr)}

\* C8: when a mandatory policy asset is missing at process start (one of the
\* three rule files, the master template under both spellings, a .txt/.md file
\* in mini_templates/, one in samples/), the process never listens, so no
\* request is ever received or answered; a directory that was created at
\* startup and is empty counts as missing.
StartupGate ==
    MandatoryMissing(fs) # {} =>
        /\ proc # "listening"
        /\ \A r \in Reqs : req[r] = IdleReq
        /\ proc = "exited" => stderr # <<>> /\ SOP = NoSOP

\* mini_templates/ did not exist, was created, and is the one missing asset
StartupGateWitness ==
    /\ proc = "exited"
    /\ "mini_templates" \in mkdirs
    /\ "mini_templates" \in fs.dirs
    /\ MandatoryMissing(fs) = {"mini_templates"}
    /\ Reported = {"mini_templates"}

\* C9: a process that exits over missing mandatory assets has reported every
\* one of them, not only the first in load order.
ReportsEveryMissingAsset ==
    (proc = "exited" /\ StrTruthy(env.OPENAI_API_KEY)) =>
        Reported = MandatoryMissing(fs)

\* C10: for every sample pool and every setting of maxFiles, perFileChars and
\* totalChars, the digest buildStyleDigest returns is at most totalChars long.
DigestWithinBudget ==
    digestOut.done => Len(digestOut.out) <= digestIn.o.totalChars

\* a digest that holds the first sample and stopped at the second for lack of
\* budget
DigestWitness ==
    /\ digestOut.done
    /\ digestOut.out # <<>>
    /\ Len(digestIn.files) = 2 /\ digestIn.o.maxFiles >= 2
    /\ Len(digestOut.out) <
         Len(buildStyleDigest(digestIn.files,
                              [digestIn.o EXCEPT !.totalChars = DefaultTotalChars]))

\* buildRationalePoints was applied: its arguments and what it returned
RationaleApplied == applied.fn = "buildRationalePoints" /\ applied.done
Texts(cues) == {cues[i].text : i \in 1..Len(cues)}

\* C11: for every payload and either application type buildRationalePoints
\* returns at most 8 entries, the first 8 cues in the order they were produced
\* when more than 8 were.
RationaleAtMostEight ==
    RationaleApplied =>
        /\ Len(applied.ret) <= 8
        /\ \A i \in 1..Len(applied.ret) :
              applied.ret[i] = AllCues(applied.arg.p, applied.arg.appType)[i]

\* every cue-producing field is present: twelve cues were produced, eight are
\* returned and the reapplication cues are among those cut
RationaleCapWitness ==
    /\ RationaleApplied
    /\ Len(AllCues(applied.arg.p, applied.arg.appType)) = 12
    /\ Len(applied.ret) = 8
    /\ "Sponsor documentation is included to close prior gaps." \notin Texts(applied.ret)

\* the two amounts of the payload buildRationalePoints was applied to
Bal == parseNum(applied.arg.p.currentBankBalance)
Trip == parseNum(applied.arg.p.estimatedTripCost)

\* C12: when balance minus trip cost is negative, the rationale holds no
\* margin statement, and no other statement that the funds cover the trip.
NoNegativeMargin ==
    (RationaleApplied /\ IsFinite(Bal) /\ IsFinite(Trip) /\ ~GeZero(Minus(Bal, Trip))) =>
        Texts(applied.ret) \cap {MarginText, BalanceText} = {}

\* both amounts parse, trip cost > 0 and balance >= trip cost
Affordable ==
    /\ RationaleApplied
    /\ IsFinite(Bal) /\ IsFinite(Trip) /\ GtZero(Trip) /\ GeZero(Minus(Bal, Trip))

\* the amount the first cue states, read back as a number
StatedAmount == parseNum(Str(applied.ret[1].args[1]))

\* C13, as stated: whenever the trip is affordable the rationale holds a margin
\* statement whose amount equals balance minus trip cost.
MarginStatesExactDifference ==
    Affordable =>
        /\ applied.ret # <<>> /\ applied.ret[1].text = MarginText
        /\ StatedAmount = Minus(Bal, Trip)

\* C13, amended: whenever the trip is affordable the rationale's first entry is
\* a margin statement whose amount is balance minus trip cost rounded to three
\* decimal places (so equal to it when it has no finer fraction), and no other
\* entry is one; being first, it survives the cap.
MarginStatesRoundedDifference ==
    Affordable =>
        /\ applied.ret # <<>> /\ applied.ret[1].text = MarginText
        /\ \A i \in 2..Len(applied.ret) : applied.ret[i].text # MarginText
        /\ LET off == Minus(StatedAmount, Minus(Bal, Trip))
               u   == Pow10(FracDigits - 3)
           IN  /\ off.int = 0 /\ 2 * off.frac <= u
               /\ StatedAmount.frac % u = 0
               /\ (Minus(Bal, Trip).frac % u = 0) => IsZero(off)

\* 2,000,000 against 1,200,000 states 800,000, with twelve cues produced
MarginWitness ==
    /\ Affordable
    /\ Bal = Number(FALSE, 2000000, 0) /\ Trip = Number(FALSE, 1200000, 0)
    /\ applied.ret[1] = Cue(MarginText, <<<<"8","0","0",",","0","0","0">>>>)
    /\ Len(AllCues(applied.arg.p, applied.arg.appType)) = 12

(***************************************************************************)
(* The canonical payload and clean.                                        *)
(***************************************************************************)
\* a request whose payload has been built
Built(r) == req[r].pc # "idle"

\* absent, or a string with a first and a last character neither of which is
\* whitespace
AbsentOrTrimmed(v) ==
    \/ v = Undefined
    \/ /\ v.t = "string"
       /\ Len(v.s) > 0
       /\ v.s[1] \notin {" ", "\n", "\t", "\r"}
       /\ v.s[Len(v.s)] \notin {" ", "\n", "\t", "\r"}

\* C14: every field of the canonical payload the handler builds is absent or a
\* non-empty string without leading or trailing whitespace, whatever the raw
\* body held (null, numbers, empty and whitespace-only strings included).
PayloadFieldsTrimmed ==
    \A r \in Reqs : Built(r) => \A k \in Fields : AbsentOrTrimmed(req[r].payload[k])

\* a body with null, a whitespace-only string and a padded string was received
PayloadFromRawKinds ==
    \E r \in Reqs :
        /\ Built(r)
        /\ Get(req[r].body, "nationality") = Null
        /\ Get(req[r].body, "dateOfBirth") = Num(0)
        /\ Get(req[r].body, "companyName") = Str(<<" ", "\n">>)
        /\ Get(req[r].body, "travelHistory") = Str(V_padded)
        /\ req[r].payload.nationality = Undefined
        /\ req[r].payload.dateOfBirth = Str(<<"0">>)
        /\ req[r].payload.companyName = Str(V_NoGuide)
        /\ req[r].payload.travelHistory = Str(<<"x", " ", "y">>)

CleanApplied == applied.fn = "clean" /\ applied.done

\* C15: clean is idempotent on absent, null, numbers, the empty string,
\* whitespace-only strings and strings with or without surrounding whitespace:
\* cleaning what clean returned changes nothing.
CleanIdempotent == CleanApplied => applied.ret.twice = applied.ret.once

\* clean was applied to a string with two whitespace characters before its text
\* and one after it
CleanPaddedTwice ==
    /\ CleanApplied
    /\ applied.arg = Str(<<" ", "\n", "a", " ">>)
    /\ applied.ret.once = Str(<<"a">>)
    /\ applied.ret.twice = Str(<<"a">>)

(***************************************************************************)
(* The fact sheet.                                                         *)
(***************************************************************************)
\* a request that passed validation, for which the prompt was composed
Validated(r) == Built(r) /\ req[r].missing = <<>>

Facts(r) == req[r].messages.user.facts

\* the fact lines that carry a label
LinesOf(facts, label) ==
    {j \in 1..Len(facts) :
        /\ Len(facts[j]) >= Len(label) + 2
        /\ SubSeq(facts[j], 1, Len(label) + 2) = label \o <<":", " ">>}

Scenario(r) == req[r].messages.scenario

\* the fact sheet has a line that starts, after optional whitespace, with a
\* refusal label and a colon
RefusalLabelledLine(r) ==
    LET joined == Join(Facts(r), <<"\n">>)
    IN  \/ AnchoredTest(joined, <<L_visa_refusals, L_colon>>)
        \/ AnchoredTest(joined, <<L_previous_visa_refusals, L_colon>>)

\* C17: the application type derived for a request is Reapplication when the
\* applicationType field says so, or visaRefusals is present, or the fact sheet
\* has a refusal-labelled line, and First-time otherwise; it is always one of
\* the two.
ApplicationTypeRule ==
    \A r \in Reqs : Validated(r) =>
        LET p == req[r].payload
            reapplication ==
                \/ Includes(toLowerCase(OrEmpty(p.applicationType)), W_reapp)
                \/ p.visaRefusals # Undefined
                \/ RefusalLabelledLine(r)
        IN  /\ Scenario(r).appType \in {"Reapplication", "First-time"}
            /\ Scenario(r).appType = "Reapplication" <=> reapplication

SponsoredApplied == applied.fn = "isSponsoredPayload" /\ applied.done

\* the funding texts that are, whatever their case, a word of the sponsorship
\* vocabulary, and the sponsorSelf texts that read "no"
SponsoringFundings ==
    {Str(<<"s","p","o","n","s","o","r">>), Str(<<"S","p","o","n","s","o","r","e","d">>),
     Str(<<"S","P","O","N","S","O","R","S","H","I","P">>), Str(<<"F","a","m","i","l","y">>),
     Str(<<"E","M","P","L","O","Y","E","R">>)}
DecliningSelf == {Str(<<"N","o">>), Str(<<"N","O">>)}

\* C18: isSponsoredPayload returns true exactly when funding is, in any case,
\* one of sponsor, sponsored, sponsorship, family, employer, or sponsorSelf is
\* "no" in any case, or sponsorName or sponsorRelationship is present; it
\* returns false for absent funding and for any other funding text.
SponsoredIff ==
    SponsoredApplied =>
        (applied.ret = TRUE <=>
            \/ applied.arg.funding \in SponsoringFundings
            \/ applied.arg.sponsorSelf \in DecliningSelf
            \/ applied.arg.sponsorName # Undefined
            \/ applied.arg.sponsorRelationship # Undefined)

\* sponsorSelf "NO" alone makes a payload with other funding text sponsored
SponsoredBySelfOnly ==
    /\ SponsoredApplied
    /\ applied.arg.funding = Str(<<"s","p","o","n","s","o","r","s">>)
    /\ applied.arg.sponsorSelf = Str(<<"N","O">>)
    /\ applied.arg.sponsorName = Undefined
    /\ applied.arg.sponsorRelationship = Undefined
    /\ applied.ret = TRUE

\* C19: for every payload with a visaRefusals value and a purpose that mentions
\* medical, buildMessages classifies the request as Reapplication and sets the
\* Medical flag, both at once.
RefusalAndMedicalTogether ==
    \A r \in Reqs : Validated(r) =>
        LET p == req[r].payload
        IN  (/\ p.visaRefusals # Undefined
             /\ Includes(toLowerCase(OrEmpty(p.purpose)), <<"m","e","d","i","c","a","l">>))
            => /\ Scenario(r).appType = "Reapplication"
               /\ Scenario(r).isMedical

\* the scenario flags of a request, as one truth value: some flag fired
SomeScenario(r) ==
    \/ Scenario(r).refusalPresent
    \/ Scenario(r).appType = "Reapplication"
    \/ Scenario(r).sponsored
    \/ Scenario(r).selfEmployed
    \/ Scenario(r).isMedical
    \/ Scenario(r).isBusiness
    \/ Scenario(r).touristFirstTime

\* C20: a request with only the seven required fields, visaType Tourist and
\* purpose Holiday passes validation, is First-time, not sponsored, fires the
\* tourist-first-time flag and gets one hint line under SCENARIO HINTS instead
\* of "(none)"; and "(none)" is rendered only when no scenario flag is true.
TouristFirstTimeHinted ==
    \A r \in Reqs :
        /\ (Built(r) /\ req[r].body = RequiredOnly) =>
              /\ req[r].missing = <<>>
              /\ Scenario(r).appType = "First-time"
              /\ ~Scenario(r).sponsored
              /\ Scenario(r).touristFirstTime
              /\ Len(req[r].messages.guide.hints) = 1
              /\ req[r].messages.guide.hints # <<NoHints>>
        /\ (Validated(r) /\ req[r].messages.guide.hints = <<NoHints>>) => ~SomeScenario(r)

(***************************************************************************)
(* The reapplication branch and the mini-templates.                        *)
(***************************************************************************)
ReapplicationHeader == "--- MINI (Reapplication) ---"

\* the loaded mini-templates whose name includes 'refusal', in any case
RefusalMinis ==
    {i \in 1..Len(SOP.minis) :
        \E k \in 1..Len(SOP.minis[i].name) :
            /\ k + 6 <= Len(SOP.minis[i].name)
            /\ toLowerCase(SubSeq(SOP.minis[i].name, k, k + 6)) = <<"r","e","f","u","s","a","l">>}

BlocksUnder(r, header) ==
    {i \in 1..Len(req[r].messages.guide.blocks) : req[r].messages.guide.blocks[i].header = header}

HasRefusals(r) == Validated(r) /\ req[r].payload.visaRefusals # Undefined

ReapplicationHinted(r) ==
    \E i \in 1..Len(req[r].messages.guide.hints) :
        req[r].messages.guide.hints[i] = "- " \o ReapplicationHint

\* C21, as stated: for every validated request with visaRefusals present the
\* type is Reapplication, the reapplication hint is rendered, and whenever a
\* loaded mini-template's name includes 'refusal' the reference block holds a
\* block under the reapplication header; without such a file the prompt is
\* composed all the same.
RefusalMiniAlwaysIncluded ==
    \A r \in Reqs : HasRefusals(r) =>
        /\ Scenario(r).appType = "Reapplication"
        /\ ReapplicationHinted(r)
        /\ Len(Calls(r)) >= 1
        /\ RefusalMinis # {} => BlocksUnder(r, ReapplicationHeader) # {}

\* C21, amended: for every validated request with visaRefusals present the
\* type is Reapplication and the reapplication hint is rendered; the reference
\* block holds one block under the reapplication header, with the trimmed text
\* of the first loaded mini-template whose name includes 'refusal', exactly
\* when there is such a file and its text is not blank; otherwise the prompt
\* is composed without that block.
RefusalMiniIncludedWhenNotBlank ==
    \A r \in Reqs : HasRefusals(r) =>
        /\ Scenario(r).appType = "Reapplication"
        /\ ReapplicationHinted(r)
        /\ Len(Calls(r)) >= 1
        /\ IF RefusalMinis # {}
              /\ ~Blank(SOP.minis[CHOOSE i \in RefusalMinis : \A j \in RefusalMinis : i <= j].text)
           THEN /\ Cardinality(BlocksUnder(r, ReapplicationHeader)) = 1
                /\ \A i \in BlocksUnder(r, ReapplicationHeader) :
                      req[r].messages.guide.blocks[i].text =
                          trim(SOP.minis[CHOOSE k \in RefusalMinis :
                                            \A j \in RefusalMinis : k <= j].text)
           ELSE BlocksUnder(r, ReapplicationHeader) = {}

\* a request with visaRefusals on an installation whose second mini-template is
\* Refusal.TXT: its trimmed text is in the reference block
RefusalMiniWitness ==
    \E r \in Reqs :
        /\ HasRefusals(r)
        /\ Len(SOP.minis) = 2
        /\ SOP.minis[2] = File(N_Refusal_TXT, <<" ","r","f","\n">>)
        /\ \E i \in BlocksUnder(r, ReapplicationHeader) :
              req[r].messages.guide.blocks[i].text = <<"r","f">>

(***************************************************************************)
(* Requests in flight together.                                            *)
(***************************************************************************)
\* what request r produced follows from its own body and from what its own
\* generation calls did
OwnResults(r) ==
    LET p == Payload(req[r].body)
        m == Missing(p)
        last == req[r].calls[Len(req[r].calls)]
    IN  /\ req[r].payload = p
        /\ req[r].missing = m
        /\ IF Len(m) > 0
           THEN req[r].calls = <<>> /\ req[r].resp = <<ValidationError(m)>>
           ELSE /\ req[r].messages = buildMessages(DetailLines(p), p)
                /\ req[r].pc = "done" =>
                      \/ /\ last.outcome = "returned"
                         /\ \E c \in last.content :
                               req[r].resp = <<IF Truthy(LetterOf(c)) THEN Success(LetterOf(c))
                                               ELSE EmptyResult>>
                      \/ /\ last.outcome = "threw"
                         /\ \E e \in req[r].caught : req[r].resp = <<GenerationFailure(e)>>

\* C22: however the requests in flight interleave, each one's validation
\* result, fact sheet, prompt and response are what its own body and its own
\* generation calls give, a step of one request changes no other request, and
\* SOP and STYLE_DIGEST keep the value they had right after startup.
RequestsIndependent ==
    /\ [](\A r \in Reqs : Built(r) => OwnResults(r))
    /\ [][proc = "listening" =>
            /\ SOP' = SOP
            /\ STYLE_DIGEST' = STYLE_DIGEST
            /\ \A r \in Reqs : req'[r] # req[r] =>
                  \A q \in Reqs \ {r} : req'[q] = req[q]]_vars

\* two requests with different bodies in flight together: the first has its
\* letter while the second waits for its fallback call
InterleavedWitness ==
    /\ req[1].pc = "done"
    /\ req[1].resp[1].status = Ok
    /\ req[1].payload.visaRefusals = Undefined
    /\ req[2].pc = "awaitFallback"
    /\ req[2].payload.visaRefusals = Str(V_2019)
    /\ req[1].messages.guide.hints = <<NoHints>>
    /\ ReapplicationHinted(2)

(***************************************************************************)
(* The order of the fact sheet.                                            *)
(***************************************************************************)
\* the payload key whose line a fact line is, and the group of that key
KeyOfLine(line) ==
    DetailTable[CHOOSE i \in 1..Len(DetailTable) : LinesOf(<<line>>, DetailTable[i].label) # {}].key
GroupOf(key) == CHOOSE g \in 1..Len(PayloadGroups) : key \in PayloadGroups[g]

\* C23: for every validated payload the fact lines come group by group, in the
\* order identity/personal, travel plan, employment/finance, ties, history,
\* sponsor, additional, branding/embassy: no line of a later group precedes a
\* line of an earlier group.
FactSheetGroupOrder ==
    \A r \in Reqs : Validated(r) =>
        \A i, j \in 1..Len(Facts(r)) :
            i < j => GroupOf(KeyOfLine(Facts(r)[i])) <= GroupOf(KeyOfLine(Facts(r)[j]))

(***************************************************************************)
(* The tone of the system message.                                         *)
(***************************************************************************)
Empathetic == "Warm, empathetic and respectful, but concise and professional."
Courteous  == "Courteous, positive, and professional."
Formal     == "Formal, direct, and professional."

ToneOf(r) == req[r].messages.system.tone

\* C24, as stated: the tone is the empathetic one exactly when the weaknesses
\* flag or the Medical flag is true, and the one formal tone in every other
\* case.
ToneTableOfTwo ==
    \A r \in Reqs : Validated(r) =>
        ToneOf(r) = IF Scenario(r).hasWeaknesses \/ Scenario(r).isMedical
                    THEN Empathetic ELSE Formal

\* the visa type read back from the fact sheet contains the word, in any case
VisaTypeMentions(r, word) ==
    \E k \in 1..Len(req[r].messages.guide.visaType) :
        /\ k + Len(word) - 1 <= Len(req[r].messages.guide.visaType)
        /\ toLowerCase(SubSeq(req[r].messages.guide.visaType, k, k + Len(word) - 1)) = word

\* C24, amended: the tone is the empathetic one exactly when the weaknesses
\* flag or the Medical flag is true; otherwise it is the courteous one when the
\* Tourist flag is true or the visa type mentions visit or study, and the
\* formal one in every remaining case.
ToneTableOfThree ==
    \A r \in Reqs : Validated(r) =>
        ToneOf(r) = IF Scenario(r).hasWeaknesses \/ Scenario(r).isMedical THEN Empathetic
                    ELSE IF \/ Scenario(r).isTourist
                            \/ VisaTypeMentions(r, <<"v","i","s","i","t">>)
                            \/ VisaTypeMentions(r, <<"s","t","u","d","y">>)
                         THEN Courteous
                    ELSE Formal

\* a study request without weaknesses was given the courteous tone
CourteousToneWitness ==
    \E r \in Reqs :
        /\ Validated(r)
        /\ req[r].payload.visaType = Str(V_Study)
        /\ ~Scenario(r).hasWeaknesses
        /\ ~Scenario(r).isMedical
        /\ ~Scenario(r).isTourist
        /\ ToneOf(r) = Courteous

(***************************************************************************)
(* The samples a digest holds.                                             *)
(***************************************************************************)
\* the samples buildStyleDigest looks at, and the entry of the k-th of them
DigestUse ==
    SubSeq(digestIn.files, 1,
           IF digestIn.o.maxFiles < Len(digestIn.files) THEN digestIn.o.maxFiles
           ELSE Len(digestIn.files))
EntryOf(k) == SampleEntry(k, DigestUse[k].name, clip(DigestUse[k].text, digestIn.o.perFileChars))

\* the entries of the first j samples, one after the other
RECURSIVE EntriesUpTo(_)
EntriesUpTo(j) == IF j = 0 THEN <<>> ELSE EntriesUpTo(j - 1) \o EntryOf(j)

\* C25: the digest is made of the whole entries of a prefix of the first
\* maxFiles samples, in listing order; the prefix ends at the first sample whose
\* entry would take the accumulated length over totalChars, which is left out
\* entirely, and no sample after it is appended even when it would fit.
DigestIsPrefix ==
    digestOut.done =>
        \E j \in 0..Len(DigestUse) :
            /\ digestOut.out = trim(EntriesUpTo(j))
            /\ Len(EntriesUpTo(j)) <= digestIn.o.totalChars
            /\ j < Len(DigestUse) => Len(EntriesUpTo(j + 1)) > digestIn.o.totalChars

\* the first sample's entry is over the budget and the second's alone would
\* fit: the digest is empty
DigestStopsWitness ==
    /\ digestOut.done
    /\ Len(DigestUse) = 2
    /\ Len(EntryOf(1)) > digestIn.o.totalChars
    /\ Len(EntryOf(2)) <= digestIn.o.totalChars
    /\ digestOut.out = <<>>

(***************************************************************************)
(* Field defaults.                                                         *)
(***************************************************************************)
FundingLines(r) == LinesOf(Facts(r), <<"F","u","n","d","i","n","g"," ","S","o","u","r","c","e">>)
CompanyLines(r) == LinesOf(Facts(r), <<"C","o","m","p","a","n","y">>)

\* C26: when the request has no funding, the payload or the fact sheet carries
\* a Funding Source entry all the same, with a fixed literal for self-funding;
\* and when it has no companyName, the payload holds the fixed company literal,
\* which the Company line shows.
AbsentFieldsDefaulted ==
    \A r \in Reqs : Validated(r) =>
        /\ clean(Get(req[r].body, "funding")) = Undefined =>
              \/ req[r].payload.funding # Undefined
              \/ FundingLines(r) # {}
        /\ clean(Get(req[r].body, "companyName")) = Undefined =>
              /\ req[r].payload.companyName = Str(V_NoGuide)
              /\ \E j \in CompanyLines(r) :
                    Facts(r)[j] = <<"C","o","m","p","a","n","y",":"," ">> \o V_NoGuide

(***************************************************************************)
(* One response per request.                                               *)
(***************************************************************************)
\* the four kinds of response
IsValidationError(a) ==
    a.status = 400 /\ a.keys = {"error"} /\ a.error = "Missing required fields" /\ Len(a.fields) > 0
IsSuccess(a) == a.status = 200 /\ a.keys = {"letter"} /\ Len(a.letter) > 0
IsEmptyResult(a) ==
    a.status = 502 /\ a.keys = {"error"} /\ a.error = "The AI returned no content."
IsGenerationFailure(r, a) ==
    /\ a.keys = {"error", "detail"}
    /\ a.error = "Failed to generate letter"
    /\ \E e \in req[r].caught :
          a.status \in (IF e.status \cup e.statusCode = {} THEN {500}
                        ELSE e.status \cup e.statusCode)

KindsOf(r, a) ==
    {k \in {"validation", "success", "empty", "failure"} :
        \/ k = "validation" /\ IsValidationError(a)
        \/ k = "success" /\ IsSuccess(a)
        \/ k = "empty" /\ IsEmptyResult(a)
        \/ k = "failure" /\ IsGenerationFailure(r, a)}

OneResponseAtMost(r) ==
    /\ Len(req[r].resp) <= 1
    /\ req[r].pc = "done" <=> Len(req[r].resp) = 1
    /\ Len(req[r].resp) = 1 => Cardinality(KindsOf(r, req[r].resp[1])) = 1

\* C27: every request whose generation calls settle ends with exactly one
\* response, which is of exactly one kind among validation error (400), success
\* (200), empty result (502) and generation failure (mirrored status or 500);
\* nothing is sent after it, and no request stays without one.
ExactlyOneResponse ==
    /\ [](\A r \in Reqs : OneResponseAtMost(r))
    /\ [][\A r \in Reqs : req[r].resp # <<>> => req'[r] = req[r]]_vars
    /\ \A r \in Reqs : Built(r) ~> (req[r].pc = "done" /\ Len(req[r].resp) = 1)

\* one request was refused at validation, the other failed at its fallback
\* call with the status the error carried
OneResponseWitness ==
    /\ req[1].pc = "done" /\ KindsOf(1, req[1].resp[1]) = {"validation"}
    /\ req[2].pc = "done" /\ KindsOf(2, req[2].resp[1]) = {"failure"}
    /\ req[2].resp[1].status = 503
    /\ Len(req[2].calls) = 2

(***************************************************************************)
(* An empty completion from the primary model.                             *)
(***************************************************************************)
\* the primary call of request r returned, and what it returned has no text
PrimaryReturnedNothing(r) ==
    /\ Len(Calls(r)) >= 1
    /\ Calls(r)[1].target = "primary"
    /\ Calls(r)[1].outcome = "returned"
    /\ \A c \in Calls(r)[1].content : c.t # "string" \/ \A i \in 1..Len(c.s) : IsWs(c.s[i])

\* C28: when the primary call returns without usable text no fallback call is
\* made: the request has made exactly one generation call and ends with the
\* empty-result error, also when a distinct fallback model is configured.
NoFallbackOnEmptyResult ==
    \A r \in Reqs : PrimaryReturnedNothing(r) =>
        /\ Len(Calls(r)) = 1
        /\ req[r].pc = "done"
        /\ req[r].resp = <<EmptyResult>>

\* with a distinct fallback model configured, the primary model returned only
\* whitespace and the request ended with the 502
NoFallbackWitness ==
    \E r \in Reqs :
        /\ FALLBACK_MODEL # "" /\ FALLBACK_MODEL # MODEL_NAME
        /\ PrimaryReturnedNothing(r)
        /\ Calls(r)[1].content = {Str(<<" ", "\n">>)}
        /\ req[r].resp[1].status = 502

(***************************************************************************)
(* Sponsored requests that reach the generation client.                    *)
(***************************************************************************)
SponsorNameLines(r) ==
    LinesOf(Facts(r), <<"S","p","o","n","s","o","r"," ","N","a","m","e">>)
SponsorRelationshipLines(r) ==
    LinesOf(Facts(r), <<"S","p","o","n","s","o","r"," ","R","e","l","a","t","i","o","n","s","h","i","p">>)

SponsoredHinted(r) ==
    \E i \in 1..Len(req[r].messages.guide.hints) :
        req[r].messages.guide.hints[i] = "- " \o SponsoredHint

\* C29: every request that reaches the generation client with the sponsored
\* flag true has a Sponsor Name line and a Sponsor Relationship line in its
\* fact sheet; the sponsored hint is in a prompt exactly when the flag is true,
\* so no prompt with that hint goes out without the two lines.
SponsoredHasIdentityLines ==
    \A r \in Reqs : Len(Calls(r)) >= 1 =>
        /\ SponsoredHinted(r) <=> Scenario(r).sponsored
        /\ Scenario(r).sponsored =>
              /\ SponsorNameLines(r) # {}
              /\ SponsorRelationshipLines(r) # {}

\* a request made sponsored by its sponsorSelf field alone reached the client
\* with both lines
SponsoredSentWitness ==
    \E r \in Reqs :
        /\ Len(Calls(r)) >= 1
        /\ Scenario(r).sponsored
        /\ req[r].payload.funding = Undefined
        /\ req[r].payload.sponsorSelf = Str(V_No)
        /\ SponsorNameLines(r) # {}
        /\ SponsorRelationshipLines(r) # {}

(***************************************************************************)
(* The reapplication signals of one prompt.                                *)
(***************************************************************************)
\* the Application Type line of the fact sheet says Reapplication
TypeLineSaysReapplication(r) ==
    \E j \in 1..Len(Facts(r)) :
        Facts(r)[j] = <<"A","p","p","l","i","c","a","t","i","o","n"," ","T","y","p","e",":"," ">>
                        \o <<"R","e","a","p","p","l","i","c","a","t","i","o","n">>

\* C30: in one prompt the reapplication hint (and the reapplication mini
\* block) is present exactly when the Application Type line says Reapplication
\* and the outline asks for the 'merits approval now' paragraph; a First-time
\* application never gets the reapplication hint, whatever its purpose says.
ReapplicationSignalsAgree ==
    \A r \in Reqs : Validated(r) =>
        /\ ReapplicationHinted(r) <=>
              (TypeLineSaysReapplication(r) /\ req[r].messages.guide.merits = MeritsNow)
        /\ BlocksUnder(r, ReapplicationHeader) # {} => TypeLineSaysReapplication(r)
        /\ Scenario(r).appType = "First-time" => ~ReapplicationHinted(r)

====
